---- MODULE Spec2Model ----
(***************************************************************************)
(* Resource-identity resolution engine of styx (pkg/crossplane): the       *)
(* confidence scorer, the match resolver, the network index and the label  *)
(* applier, modelled over a small store of managed resources.              *)
(*                                                                         *)
(* Strings that the code inspects (names, kinds, label values, addresses)  *)
(* are sequences of one-character strings, so that ToLower, Contains,      *)
(* Split and the pluralisation kind+"s" are computed and not assumed.      *)
(* Confidence values are exact rationals [n, d] standing for (n/d)/10:     *)
(* the weights 0.5 .. 0.9 are the integers 5 .. 9.                         *)
(***************************************************************************)
EXTENDS Integers, Sequences, FiniteSets, TLC

(* ------------------------------ bounds --------------------------------- *)

\* largest number of managed resources in the store
MaxStore == 3

\* last clock reading (minutes) the model explores
MaxTime == 40

\* minutes that pass in one Tick
TickStep == 40

\* longest observed-address list handed to the resolver
MaxPodIPs == 2

\* largest number of resource types whose listing fails in one call
MaxFail == 1

\* fetches by name that may fail during one call
MaxGetFail == 1

\* most pods the cluster runs
MaxPods == 2

\* objects whose Get, or whose Update, the store rejects during one pass
MaxReject == 1

\* commits to the store after which no further apply or external write
\* starts
MaxCommits == 2

(* ------------------------------ strings -------------------------------- *)

Upper == <<"A", "B", "C", "D", "E", "F", "G", "H", "I", "J", "K", "L", "M", "N", "O", "P", "Q", "R", "S", "T", "U", "V", "W", "X", "Y", "Z">>

Lower == <<"a", "b", "c", "d", "e", "f", "g", "h", "i", "j", "k", "l", "m", "n", "o", "p", "q", "r", "s", "t", "u", "v", "w", "x", "y", "z">>

Digits == {"0", "1", "2", "3", "4", "5", "6", "7", "8", "9"}

\* the lower-case letter of every upper-case letter
LowerOf ==
  [c \in {Upper[i] : i \in 1..Len(Upper)} |->
     Lower[CHOOSE i \in 1..Len(Upper) : Upper[i] = c]]

\* strings.ToLower on one character
LowerChar(c) == IF c \in DOMAIN LowerOf THEN LowerOf[c] ELSE c

\* strings.ToLower
ToLower(s) == [i \in 1..Len(s) |-> LowerChar(s[i])]

\* strings.Contains
Contains(s, sub) ==
  \E i \in 0..(Len(s) - Len(sub)) : SubSeq(s, i + 1, i + Len(sub)) = sub

\* strings.Count(s, c) for a one-character separator
Count(s, c) == Cardinality({i \in 1..Len(s) : s[i] = c})

\* strings.Split(s, d) for a one-character separator
RECURSIVE Split(_, _)
Split(s, d) ==
  IF \A i \in 1..Len(s) : s[i] # d
    THEN <<s>>
    ELSE LET k == CHOOSE i \in 1..Len(s) :
                     s[i] = d /\ \A j \in 1..(i - 1) : s[j] # d
         IN  <<SubSeq(s, 1, k - 1)>> \o Split(SubSeq(s, k + 1, Len(s)), d)

WhiteSpace == {" ", "\t", "\n", "\r"}

\* strings.TrimSpace
RECURSIVE TrimSpace(_)
TrimSpace(s) ==
  IF s = <<>> THEN s
  ELSE IF s[1] \in WhiteSpace THEN TrimSpace(Tail(s))
  ELSE IF s[Len(s)] \in WhiteSpace THEN TrimSpace(SubSeq(s, 1, Len(s) - 1))
  ELSE s

\* the indexes of a sequence, and its elements
Range(s) == {s[i] : i \in 1..Len(s)}

\* concatenation of a sequence of sequences
RECURSIVE Flatten(_)
Flatten(ss) == IF ss = <<>> THEN <<>> ELSE Head(ss) \o Flatten(Tail(ss))

\* a map with no key (nil or empty map[string]string)
EmptyMap == [k \in {} |-> <<>>]

(* --------------------------- resource catalogue ------------------------ *)

GVR(g, v, r) == [Group |-> g, Version |-> v, Resource |-> r]

GetCrossplaneResourceTypes == <<
  GVR("compute.gcp.upbound.io", "v1beta1", <<"i", "n", "s", "t", "a", "n", "c", "e", "s">>),
  GVR("compute.gcp.upbound.io", "v1beta1", <<"d", "i", "s", "k", "s">>),
  GVR("compute.gcp.upbound.io", "v1beta1", <<"f", "i", "r", "e", "w", "a", "l", "l", "s">>),
  GVR("compute.gcp.upbound.io", "v1beta1", <<"n", "e", "t", "w", "o", "r", "k", "s">>),
  GVR("compute.gcp.upbound.io", "v1beta1", <<"s", "u", "b", "n", "e", "t", "w", "o", "r", "k", "s">>),
  GVR("compute.gcp.upbound.io", "v1beta1", <<"r", "o", "u", "t", "e", "r", "s">>),
  GVR("compute.gcp.upbound.io", "v1beta1", <<"a", "d", "d", "r", "e", "s", "s", "e", "s">>),
  GVR("storage.gcp.upbound.io", "v1beta1", <<"b", "u", "c", "k", "e", "t", "s">>),
  GVR("storage.gcp.upbound.io", "v1beta1", <<"b", "u", "c", "k", "e", "t", "i", "a", "m", "m", "e", "m", "b", "e", "r", "s">>),
  GVR("storage.gcp.upbound.io", "v1beta1", <<"b", "u", "c", "k", "e", "t", "o", "b", "j", "e", "c", "t", "s">>),
  GVR("sql.gcp.upbound.io", "v1beta1", <<"d", "a", "t", "a", "b", "a", "s", "e", "i", "n", "s", "t", "a", "n", "c", "e", "s">>),
  GVR("sql.gcp.upbound.io", "v1beta2", <<"d", "a", "t", "a", "b", "a", "s", "e", "i", "n", "s", "t", "a", "n", "c", "e", "s">>),
  GVR("sql.gcp.upbound.io", "v1beta1", <<"d", "a", "t", "a", "b", "a", "s", "e", "s">>),
  GVR("sql.gcp.upbound.io", "v1beta1", <<"u", "s", "e", "r", "s">>),
  GVR("sql.gcp.upbound.io", "v1beta1", <<"s", "s", "l", "c", "e", "r", "t", "s">>),
  GVR("redis.gcp.upbound.io", "v1beta1", <<"i", "n", "s", "t", "a", "n", "c", "e", "s">>),
  GVR("bigtable.gcp.upbound.io", "v1beta1", <<"i", "n", "s", "t", "a", "n", "c", "e", "s">>),
  GVR("bigtable.gcp.upbound.io", "v1beta1", <<"t", "a", "b", "l", "e", "s">>),
  GVR("spanner.gcp.upbound.io", "v1beta1", <<"i", "n", "s", "t", "a", "n", "c", "e", "s">>),
  GVR("spanner.gcp.upbound.io", "v1beta1", <<"d", "a", "t", "a", "b", "a", "s", "e", "s">>),
  GVR("pubsub.gcp.upbound.io", "v1beta1", <<"t", "o", "p", "i", "c", "s">>),
  GVR("pubsub.gcp.upbound.io", "v1beta1", <<"s", "u", "b", "s", "c", "r", "i", "p", "t", "i", "o", "n", "s">>),
  GVR("pubsub.gcp.upbound.io", "v1beta1", <<"t", "o", "p", "i", "c", "i", "a", "m", "m", "e", "m", "b", "e", "r", "s">>),
  GVR("cloudfunctions.gcp.upbound.io", "v1beta1", <<"f", "u", "n", "c", "t", "i", "o", "n", "s">>),
  GVR("kms.gcp.upbound.io", "v1beta1", <<"c", "r", "y", "p", "t", "o", "k", "e", "y", "s">>),
  GVR("kms.gcp.upbound.io", "v1beta1", <<"k", "e", "y", "r", "i", "n", "g", "s">>),
  GVR("cloudscheduler.gcp.upbound.io", "v1beta1", <<"j", "o", "b", "s">>),
  GVR("iam.gcp.upbound.io", "v1beta1", <<"s", "e", "r", "v", "i", "c", "e", "a", "c", "c", "o", "u", "n", "t", "s">>),
  GVR("iam.gcp.upbound.io", "v1beta1", <<"s", "e", "r", "v", "i", "c", "e", "a", "c", "c", "o", "u", "n", "t", "k", "e", "y", "s">>),
  GVR("cloudplatform.gcp.upbound.io", "v1beta1", <<"s", "e", "r", "v", "i", "c", "e", "a", "c", "c", "o", "u", "n", "t", "s">>),
  GVR("cloudplatform.gcp.upbound.io", "v1beta1", <<"s", "e", "r", "v", "i", "c", "e", "a", "c", "c", "o", "u", "n", "t", "i", "a", "m", "m", "e", "m", "b", "e", "r", "s">>),
  GVR("cloudplatform.gcp.upbound.io", "v1beta1", <<"p", "r", "o", "j", "e", "c", "t", "i", "a", "m", "m", "e", "m", "b", "e", "r", "s">>) >>

(* ------------------------- managed resource documents ------------------ *)

\* a map[string]string / map[string]interface{} holding strings
M1(k, v) == k :> v

M2(k1, v1, k2, v2) == (k1 :> v1) @@ (k2 :> v2)

\* The documents the store may hold.  group/collection/versions say where
\* the API server serves the object (its CRD's plural name and served
\* versions); kind and name are what GetKind/GetName return; labels are the
\* metadata labels at creation; fp holds the string-valued fields directly
\* under spec.forProvider, fpSub its map-valued fields (labels included),
\* nics its networkInterfaces list; at holds the string-valued fields of
\* status.atProvider and atAddresses its addresses list.
Doc(g, coll, vs, kind, name, labels, fp, fpSub, nics, at, atAddresses) ==
  [group |-> g, collection |-> coll, versions |-> vs, kind |-> kind,
   name |-> name, labels |-> labels, fp |-> fp, fpSub |-> fpSub,
   nics |-> nics, at |-> at, atAddresses |-> atAddresses]

Docs == <<
  \* 1: compute Instance "ab-1": one dual-stack interface with a NAT
  \*    address, its ipAddress an IPv6 literal
  Doc("compute.gcp.upbound.io", <<"i", "n", "s", "t", "a", "n", "c", "e", "s">>, {"v1beta1"}, <<"I", "n", "s", "t", "a", "n", "c", "e">>,
      <<"a", "b", "-", "1">>, EmptyMap, EmptyMap, EmptyMap,
      << [str |-> M2("networkIP", <<"1", ".", "2", ".", "3", ".", "4">>,
                     "ipAddress", <<"f", "d", ":", ":", "1">>),
          accessConfigs |-> << M1("natIP", <<"1", ".", "2", ".", "3", ".", "5">>) >>] >>,
      EmptyMap, <<>>),
  \* 2: compute Instance "web" labelled with its namespace
  Doc("compute.gcp.upbound.io", <<"i", "n", "s", "t", "a", "n", "c", "e", "s">>, {"v1beta1"}, <<"I", "n", "s", "t", "a", "n", "c", "e">>,
      <<"w", "e", "b">>, M1("kubernetes-namespace", <<"a", "b">>),
      M1("ipAddress", <<"1", ".", "2", ".", "3", ".", "4">>), EmptyMap, <<>>, EmptyMap, <<>>),
  \* 3: redis Instance "web": same kind and name as 2, other group
  Doc("redis.gcp.upbound.io", <<"i", "n", "s", "t", "a", "n", "c", "e", "s">>, {"v1beta1"}, <<"I", "n", "s", "t", "a", "n", "c", "e">>,
      <<"w", "e", "b">>, M1("namespace", <<"a", "b">>), M1("host", <<"1", ".", "2", ".", "3", ".", "4">>), EmptyMap,
      <<>>, EmptyMap, <<>>),
  \* 4: compute Address "ab-ip" whose address is reported in its status
  Doc("compute.gcp.upbound.io", <<"a", "d", "d", "r", "e", "s", "s", "e", "s">>, {"v1beta1"}, <<"A", "d", "d", "r", "e", "s", "s">>,
      <<"a", "b", "-", "i", "p">>, M1("team", <<"x">>), EmptyMap,
      EmptyMap, <<>>,
      M1("address", <<"1", ".", "2", ".", "3", ".", "5">>), <<>>),
  \* 5: sql DatabaseInstance "db", served under both catalogue versions,
  \*    whose forProvider names namespace "c"
  Doc("sql.gcp.upbound.io", <<"d", "a", "t", "a", "b", "a", "s", "e", "i", "n", "s", "t", "a", "n", "c", "e", "s">>, {"v1beta1", "v1beta2"},
      <<"D", "a", "t", "a", "b", "a", "s", "e", "I", "n", "s", "t", "a", "n", "c", "e">>, <<"d", "b">>,
      M2("environment", <<"a", "b">>, "app", <<"A", "B">>),
      M2("ipAddress", <<"1", ".", "2", ".", "3", ".", "5">>, "connectionName", <<"c", ":", "1", ".", "2", ".", "3", ".", "5">>)
        @@ M1("project", <<"c", "-", "x">>),
      M1("labels", M1("namespace", <<"c">>)), <<>>, EmptyMap, <<>>) >>

DocIds == 1..Len(Docs)

\* the keys of every map of the model, in one order
AllKeys == << "address", "app", "connectionName", "environment", "host",
              "ipAddress", "kubernetes-namespace", "labels", "namespace",
              "natIP", "networkIP", "project", "team", "workload-name" >>

Reverse(s) == [i \in 1..Len(s) |-> s[Len(s) + 1 - i]]

\* Go iterates over a map in an unspecified order: the orders a call may
\* meet, two when some map of a stored object has more than one key
KeyOrders(st) ==
  IF \E id \in DOMAIN st :
       \/ Cardinality(DOMAIN st[id]) > 1
       \/ Cardinality(DOMAIN Docs[id].fp \cup DOMAIN Docs[id].fpSub) > 1
    THEN {AllKeys, Reverse(AllKeys)}
    ELSE {AllKeys}

\* the keys of map m in iteration order ord
Keys(m, ord) == SelectSeq(ord, LAMBDA k : k \in DOMAIN m)

\* the elements of a set of numbers in ascending order
RECURSIVE Ascending(_)
Ascending(S) ==
  IF S = {} THEN <<>>
  ELSE LET m == CHOOSE x \in S : \A y \in S : x <= y
       IN  <<m>> \o Ascending(S \ {m})

\* the unstructured object for stored object id at version v, carrying
\* the given labels
Object(id, v, labels) ==
  [id |-> id, group |-> Docs[id].group, version |-> v,
   kind |-> Docs[id].kind, name |-> Docs[id].name, labels |-> labels,
   fp |-> Docs[id].fp, fpSub |-> Docs[id].fpSub, nics |-> Docs[id].nics,
   at |-> Docs[id].at, atAddresses |-> Docs[id].atAddresses]

\* what the API server returns for object id read at version v now
Item(st, id, v) == Object(id, v, st[id])

\* the stored objects served under a group/version/resource
Served(st, gvr) ==
  {id \in DOMAIN st : /\ Docs[id].group = gvr.Group
                      /\ Docs[id].collection = gvr.Resource
                      /\ gvr.Version \in Docs[id].versions}

\* dynamicClient.Resource(gvr).List: the items, in the server's order
List(st, gvr) ==
  LET ids == Ascending(Served(st, gvr))
  IN  [i \in 1..Len(ids) |-> Item(st, ids[i], gvr.Version)]

\* dynamicClient.Resource(gvr).Get by name: the ids found (none or one)
GetIds(st, gvr, name) == {id \in Served(st, gvr) : Docs[id].name = name}

(* ----------------------------- confidence ------------------------------ *)

\* signal weights, in tenths
WNamespaceLabel == 9

WEnvironmentLabel == 7

\* variant: line 248 appends the weight of line 268
WNameAsEnvironment == WEnvironmentLabel

WName == 8

WOtherLabel == 6

WForProviderField == 5

\* the inclusion threshold 0.3, in tenths
Threshold == 3

\* the fixed confidence 0.9 of a network match, in tenths
NetworkConfidence == 9

\* exact value (n/d)/10 of a float64 confidence
Conf(n, d) == [n |-> n, d |-> d]

ConfLess(a, b) == a.n * b.d < b.n * a.d

ConfEq(a, b) == a.n * b.d = b.n * a.d

\* variant: the comparison of line 203 inverted
ConfBelow(a, t) == a.n < t * a.d

\* a > t/10
ConfAbove(a, t) == a.n > t * a.d

\* one reason string: which check produced it, and the key or value it cites
Reason(sig, key, val) == [sig |-> sig, key |-> key, val |-> val]

Signal(sig, key, val, w) == [reason |-> Reason(sig, key, val), w |-> w]

If(c, s) == IF c THEN <<s>> ELSE <<>>

RECURSIVE SumSeq(_)
SumSeq(s) == IF s = <<>> THEN 0 ELSE Head(s) + SumSeq(Tail(s))

\* math.Pow(score, 2)
Pow2(w) == w * w

\* lines 245-309: the identity signals that fire, in the order appended
FiredSignals(resource, namespace, ord) ==
  LET labels == resource.labels
      has(m, k) == k \in DOMAIN m /\ m[k] = namespace
      nsl == ToLower(namespace)
      other == SelectSeq(Keys(labels, ord),
                 LAMBDA k : /\ k # "kubernetes-namespace"
                            /\ k # "namespace"
                            /\ k # "environment"
                            /\ Contains(ToLower(labels[k]), nsl))
      fpl == IF "labels" \in DOMAIN resource.fpSub
               THEN resource.fpSub["labels"] ELSE EmptyMap
      fields == SelectSeq(Keys(resource.fp, ord),
                  LAMBDA k : Contains(ToLower(resource.fp[k]), nsl))
  IN  If(Contains(ToLower(resource.name), nsl),
         Signal("name contains namespace", "", namespace, WName))
      \o If(has(labels, "kubernetes-namespace"),
            Signal("label matches", "kubernetes-namespace", <<>>,
                   WNamespaceLabel))
      \o If(has(labels, "namespace"),
            Signal("label matches", "namespace", <<>>, WNamespaceLabel))
      \o If(has(labels, "environment"),
            Signal("label matches", "environment", <<>>, WEnvironmentLabel))
      \o [i \in 1..Len(other) |->
            Signal("label value contains namespace", other[i], <<>>,
                   WOtherLabel)]
      \o If(has(fpl, "kubernetes-namespace"),
            Signal("forProvider.labels matches", "kubernetes-namespace",
                   <<>>, WNamespaceLabel))
      \o If(has(fpl, "namespace"),
            Signal("forProvider.labels matches", "namespace", <<>>,
                   WNamespaceLabel))
      \o If(has(fpl, "environment"),
            Signal("forProvider.labels matches", "environment", <<>>,
                   WEnvironmentLabel))
      \o [i \in 1..Len(fields) |->
            Signal("forProvider field contains namespace", fields[i], <<>>,
                   WForProviderField)]

\* variant: lines 328-333 always take the fallback weightedTotal / len(scores)
ScoreByCount(scores) ==
  IF Len(scores) = 0 THEN Conf(0, 1)
  ELSE Conf(SumSeq([i \in 1..Len(scores) |-> scores[i] * Pow2(scores[i])]),
            100 * Len(scores))

\* lines 311-335: the overall score of the fired weights.  With weights in
\* tenths, weightedTotal / totalWeight is the score in tenths, and the
\* fallback weightedTotal / len(scores) is Conf(weightedTotal, 100 * len).
Score(scores) ==
  IF Len(scores) = 0 THEN Conf(0, 1)
  ELSE LET weightedTotal ==
             SumSeq([i \in 1..Len(scores) |-> scores[i] * Pow2(scores[i])])
           totalWeight ==
             SumSeq([i \in 1..Len(scores) |-> Pow2(scores[i])])
       IN  IF totalWeight > 0 THEN Conf(weightedTotal, totalWeight)
           ELSE Conf(weightedTotal, 100 * Len(scores))

evaluateResourceMatchForNamespace(resource, namespace, ord) ==
  LET fired == FiredSignals(resource, namespace, ord)
  IN  [reasons |-> [i \in 1..Len(fired) |-> fired[i].reason],
       confidence |-> Score([i \in 1..Len(fired) |-> fired[i].w])]

(* ------------------------------- sorting ------------------------------- *)

\* variant: line 234 exchanges the scores and leaves the rest in place
SwapScores(m, i, j) ==
  [m EXCEPT ![i].ConfidenceScore = m[j].ConfidenceScore,
            ![j].ConfidenceScore = m[i].ConfidenceScore]

Swap(m, i, j) == [m EXCEPT ![i] = m[j], ![j] = m[i]]

\* the inner loop of sortMatchesByConfidence, from index j
RECURSIVE SortInner(_, _, _)
SortInner(m, i, j) ==
  IF j > Len(m) THEN m
  ELSE IF ConfLess(m[i].ConfidenceScore, m[j].ConfidenceScore)
         THEN SortInner(Swap(m, i, j), i, j + 1)
         ELSE SortInner(m, i, j + 1)

\* the outer loop of sortMatchesByConfidence, from index i
RECURSIVE SortOuter(_, _)
SortOuter(m, i) ==
  IF i > Len(m) THEN m ELSE SortOuter(SortInner(m, i, i + 1), i + 1)

\* variant: the outer loop of line 231 runs for i = 0 only
sortFirstPass(matches) == SortInner(matches, 1, 2)

sortMatchesByConfidence(matches) == SortOuter(matches, 1)

(* ---------------------------- address signals -------------------------- *)

\* looksLikeIP: four dot-separated parts of one to three digits
looksLikeIP(s) ==
  /\ Count(s, ".") = 3
  /\ LET parts == Split(s, ".")
     IN  /\ Len(parts) = 4
         /\ \A p \in 1..Len(parts) :
              /\ Len(parts[p]) # 0
              /\ Len(parts[p]) <= 3
              /\ \A i \in 1..Len(parts[p]) : parts[p][i] \in Digits

\* extractIPsFromConnectionString: every part, under each delimiter in turn
extractIPsFromConnectionString(connStr) ==
  LET delimiters == << ":", "/", "@", "," >>
      parts(d) == LET ps == Split(connStr, d)
                  IN  [i \in 1..Len(ps) |-> TrimSpace(ps[i])]
  IN  Flatten([d \in 1..Len(delimiters) |->
                 SelectSeq(parts(delimiters[d]), looksLikeIP)])

\* the values of the listed string fields of a map that are set and non-empty
NonEmptyFields(m, fields) ==
  LET present == SelectSeq(fields, LAMBDA f : f \in DOMAIN m /\ m[f] # <<>>)
  IN  [i \in 1..Len(present) |-> m[present[i]]]

\* strings.Contains(resource.GetAPIVersion(), g): the apiVersion is
\* group/version, and no group of the catalogue occurs inside another
APIVersionContains(resource, g) == resource.group = g

\* lines 497-530: compute instances
ComputeInstanceIPs(resource) ==
  LET ni(n) ==
        NonEmptyFields(n.str, << "networkIP", "ipAddress" >>)
        \o Flatten([a \in 1..Len(n.accessConfigs) |->
                      NonEmptyFields(n.accessConfigs[a], << "natIP" >>)])
  IN  NonEmptyFields(resource.fp,
                     << "ipAddress", "privateIpAddress", "publicIpAddress" >>)
      \o Flatten([n \in 1..Len(resource.nics) |-> ni(resource.nics[n])])

\* lines 551-572: checkIPFields over forProvider, one level deep
checkIPFields(resource, ord) ==
  LET keys == SelectSeq(ord, LAMBDA k : k \in DOMAIN resource.fp
                                        \/ k \in DOMAIN resource.fpSub)
      sub(m) == LET ks == SelectSeq(Keys(m, ord),
                                    LAMBDA k : looksLikeIP(m[k]))
                IN  [i \in 1..Len(ks) |-> m[ks[i]]]
      at(k) == IF k \in DOMAIN resource.fp
                 THEN If(looksLikeIP(resource.fp[k]), resource.fp[k])
                 ELSE sub(resource.fpSub[k])
  IN  Flatten([i \in 1..Len(keys) |-> at(keys[i])])

\* lines 533-582: SQL instances
DatabaseInstanceIPs(resource, ord) ==
  LET conn == NonEmptyFields(resource.fp,
                << "connectionName", "host", "endpoint", "uri",
                   "connectionString" >>)
  IN  checkIPFields(resource, ord)
      \o Flatten([i \in 1..Len(conn) |->
                    extractIPsFromConnectionString(conn[i])])

\* lines 585-596: redis instances
RedisInstanceIPs(resource) ==
  LET auth == NonEmptyFields(resource.fp, << "authString" >>)
  IN  NonEmptyFields(resource.fp, << "host" >>)
      \o Flatten([i \in 1..Len(auth) |->
                    extractIPsFromConnectionString(auth[i])])

\* lines 604-630: every other resource, from status.atProvider
StatusIPs(resource) ==
  LET entry(a) ==
        IF a.isMap
          THEN SelectSeq(NonEmptyFields(a.map,
                           << "ip", "ipAddress", "address" >>), looksLikeIP)
          ELSE If(looksLikeIP(a.str), a.str)
  IN  SelectSeq(NonEmptyFields(resource.at,
                  << "ipAddress", "ip", "address", "host", "endpoint" >>),
                looksLikeIP)
      \o Flatten([a \in 1..Len(resource.atAddresses) |->
                    entry(resource.atAddresses[a])])

KindInstance == <<"I", "n", "s", "t", "a", "n", "c", "e">>

KindDatabaseInstance == <<"D", "a", "t", "a", "b", "a", "s", "e", "I", "n", "s", "t", "a", "n", "c", "e">>

extractIPAddresses(resource, ord) ==
  IF /\ resource.kind = KindInstance
     /\ APIVersionContains(resource, "compute.gcp.upbound.io")
    THEN ComputeInstanceIPs(resource)
  ELSE IF /\ resource.kind = KindDatabaseInstance
          /\ APIVersionContains(resource, "sql.gcp.upbound.io")
    THEN DatabaseInstanceIPs(resource, ord)
  ELSE IF /\ resource.kind = KindInstance
          /\ APIVersionContains(resource, "redis.gcp.upbound.io")
    THEN RedisInstanceIPs(resource)
  ELSE IF /\ resource.kind = KindInstance
          /\ APIVersionContains(resource, "spanner.gcp.upbound.io")
    THEN <<>>
  ELSE StatusIPs(resource)

(* ----------------------------- network index --------------------------- *)

\* 30 * time.Minute
StaleAfter == 30

\* time.Time{}: the zero time, further back than any staleness window
ZeroTime == -31

ResourceIdentifier(item) ==
  [Kind |-> item.kind, Name |-> item.name,
   Group |-> item.group, Version |-> item.version]

\* variant: line 190 returns at the first listing that fails
ListAllUntilFailure(st, failing) ==
  LET types == GetCrossplaneResourceTypes
  IN  Flatten([c \in 1..Len(types) |->
                 IF \E f \in failing : f <= c THEN <<>>
                 ELSE List(st, types[c])])

\* the items of every resource type whose listing succeeds, in catalogue
\* order; failing is the set of catalogue positions whose List call errs
ListAll(st, failing) ==
  LET types == GetCrossplaneResourceTypes
  IN  Flatten([c \in 1..Len(types) |->
                 IF c \in failing THEN <<>> ELSE List(st, types[c])])

\* lines 445-472: the address map built from the listed items
BuildNetworkMap(st, failing, ord) ==
  LET items == ListAll(st, failing)
      pairs == Flatten([i \in 1..Len(items) |->
                 LET ips == extractIPAddresses(items[i], ord)
                 IN  [k \in 1..Len(ips) |->
                        [ip |-> ips[k],
                         identifier |-> ResourceIdentifier(items[i])]]])
      under(ip) == SelectSeq(pairs, LAMBDA p : p.ip = ip)
  IN  [ip \in {pairs[i].ip : i \in 1..Len(pairs)} |->
         [k \in 1..Len(under(ip)) |-> under(ip)[k].identifier]]

\* variant: line 475 (h.lastNetworkMapBuild = time.Now()) left out
RebuiltUnstamped(st, failing, ord, t) ==
  [resourceIPMap |-> BuildNetworkMap(st, failing, ord),
   lastNetworkMapBuild |-> ZeroTime]

\* the handler's index fields after a rebuild finishing at time t
Rebuilt(st, failing, ord, t) ==
  [resourceIPMap |-> BuildNetworkMap(st, failing, ord),
   lastNetworkMapBuild |-> t]

\* lines 467-469: one identifier appended under each of its addresses
RECURSIVE AddIPs(_, _, _)
AddIPs(resourceMap, ips, identifier) ==
  IF ips = <<>> THEN resourceMap
  ELSE LET ip == Head(ips)
           under == IF ip \in DOMAIN resourceMap THEN resourceMap[ip]
                    ELSE <<>>
           added == [k \in DOMAIN resourceMap \cup {ip} |->
                       IF k = ip THEN Append(under, identifier)
                       ELSE resourceMap[k]]
       IN  AddIPs(added, Tail(ips), identifier)

\* lines 455-471: the items of one listing entered into the map
RECURSIVE AddItems(_, _, _)
AddItems(resourceMap, items, ord) ==
  IF items = <<>> THEN resourceMap
  ELSE AddItems(AddIPs(resourceMap, extractIPAddresses(Head(items), ord),
                       ResourceIdentifier(Head(items))),
                Tail(items), ord)

\* variant: line 445 takes h.resourceIPMap as the map the loop fills
ListingStepInPlace(h, resourceMap, st, c, failing, ord) ==
  LET filled == IF c \in failing THEN resourceMap
                ELSE AddItems(resourceMap,
                              List(st, GetCrossplaneResourceTypes[c]), ord)
  IN  [resourceIPMap |-> filled, resourceMap |-> filled]

\* lines 448-472: one iteration of the loop over the resource types, for
\* catalogue position c: the handler's map, and the local map it fills
ListingStep(h, resourceMap, st, c, failing, ord) ==
  LET filled == IF c \in failing THEN resourceMap
                ELSE AddItems(resourceMap,
                              List(st, GetCrossplaneResourceTypes[c]), ord)
  IN  [resourceIPMap |-> h.resourceIPMap, resourceMap |-> filled]

(* ----------------------------- match resolver -------------------------- *)

\* fmt.Sprintf("%s/%s", kind, name)
ResourceKey(kind, name) == kind \o << "/" >> \o name

ResourceMatch(item, confidence, reasons) ==
  [Resource |-> item, ConfidenceScore |-> confidence,
   MatchReasons |-> reasons]

RECURSIVE ScanItems(_, _, _, _, _)
RECURSIVE ScanItemsNoMark(_, _, _, _, _)

\* variant: line 210 (foundResources[resourceKey] = true) left out
ScanItemsNoMark(items, namespace, ord, matches, foundResources) ==
  IF items = <<>> THEN matches
  ELSE LET item == Head(items)
           resourceKey == ResourceKey(item.kind, item.name)
           e == evaluateResourceMatchForNamespace(item, namespace, ord)
       IN  IF resourceKey \notin foundResources
              /\ ConfAbove(e.confidence, Threshold)
             THEN ScanItemsNoMark(Tail(items), namespace, ord,
                                  Append(matches,
                                         ResourceMatch(item, e.confidence,
                                                       e.reasons)),
                                  foundResources)
           ELSE ScanItemsNoMark(Tail(items), namespace, ord, matches,
                                foundResources)

\* lines 193-218: the loop over the listed items
ScanItems(items, namespace, ord, matches, foundResources) ==
  IF items = <<>> THEN matches
  ELSE LET item == Head(items)
           resourceKey == ResourceKey(item.kind, item.name)
           e == evaluateResourceMatchForNamespace(item, namespace, ord)
       IN  IF resourceKey \in foundResources
             THEN ScanItems(Tail(items), namespace, ord, matches,
                            foundResources)
           ELSE IF ConfAbove(e.confidence, Threshold)
             THEN ScanItems(Tail(items), namespace, ord,
                            Append(matches,
                                   ResourceMatch(item, e.confidence,
                                                 e.reasons)),
                            foundResources \cup {resourceKey})
           ELSE ScanItems(Tail(items), namespace, ord, matches,
                          foundResources)

\* variant: line 173 compares with 30, a duration of 30 nanoseconds
StaleNoUnit(h, t) == t - h.lastNetworkMapBuild >= 0

\* line 173: time.Since(h.lastNetworkMapBuild) > 30*time.Minute
Stale(h, t) == t - h.lastNetworkMapBuild > StaleAfter

\* lines 172-177: the index after the staleness check of resolveByName
RefreshIfStale(h, st, t, failing, ord) ==
  IF Stale(h, t) THEN Rebuilt(st, failing, ord, t) ELSE h

\* one run of BuildNetworkMap by a handler in state h, finishing at time t:
\* when it ran, when the rebuild before it had run, and whether the index
\* was empty
BuiltAt(h, t) ==
  [at |-> t, previous |-> h.lastNetworkMapBuild,
   empty |-> Cardinality(DOMAIN h.resourceIPMap) = 0]

\* lines 172-177: the rebuilds the staleness check of resolveByName runs
BuiltIfStale(h, t) == IF Stale(h, t) THEN << BuiltAt(h, t) >> ELSE <<>>

\* lines 179-225: the ranked metadata matches
FindCrossplaneResourcesForNamespaceWithConfidence(st, namespace, failing, ord) ==
  sortMatchesByConfidence(
    ScanItems(ListAll(st, failing), namespace, ord, <<>>, {}))

\* lines 702-706: the index after the check of resolveByNameWithNetwork
RefreshIfEmptyOrStale(h, st, t, failing, ord) ==
  IF Cardinality(DOMAIN h.resourceIPMap) = 0 \/ Stale(h, t)
    THEN Rebuilt(st, failing, ord, t) ELSE h

\* lines 702-706: the rebuilds the check of resolveByNameWithNetwork runs
BuiltIfEmptyOrStale(h, t) ==
  IF Cardinality(DOMAIN h.resourceIPMap) = 0 \/ Stale(h, t)
    THEN << BuiltAt(h, t) >> ELSE <<>>

\* lines 735-739: the collection the network phase fetches from
GVROf(kind, group, version) ==
  GVR(group, version, ToLower(kind) \o << "s" >>)

\* lines 724-762: the identifiers connected to one pod address
RECURSIVE AddConnected(_, _, _, _, _, _)
AddConnected(connected, podIP, st, getFails, matches, foundResources) ==
  IF connected = <<>>
    THEN [matches |-> matches, foundResources |-> foundResources]
  ELSE LET c == Head(connected)
           resourceKey == ResourceKey(c.Kind, c.Name)
           gvr == GVROf(c.Kind, c.Group, c.Version)
           got == GetIds(st, gvr, c.Name) \ getFails
       IN  IF resourceKey \in foundResources \/ got = {}
             THEN AddConnected(Tail(connected), podIP, st, getFails,
                               matches, foundResources)
           ELSE LET id == CHOOSE x \in got : TRUE
                    match == ResourceMatch(
                               Item(st, id, c.Version),
                               Conf(NetworkConfidence, 1),
                               << Reason("network connection from pod IP",
                                         "", podIP) >>)
                IN  AddConnected(Tail(connected), podIP, st, getFails,
                                 Append(matches, match),
                                 foundResources \cup {resourceKey})

\* lines 718-763: the loop over the pod addresses
RECURSIVE AddNetworkMatches(_, _, _, _, _, _)
AddNetworkMatches(podIPs, ipMap, st, getFails, matches, foundResources) ==
  IF podIPs = <<>> THEN matches
  ELSE IF Head(podIPs) \notin DOMAIN ipMap
    THEN AddNetworkMatches(Tail(podIPs), ipMap, st, getFails, matches,
                           foundResources)
  ELSE LET r == AddConnected(ipMap[Head(podIPs)], Head(podIPs), st,
                             getFails, matches, foundResources)
       IN  AddNetworkMatches(Tail(podIPs), ipMap, st, getFails, r.matches,
                             r.foundResources)

\* variant: the early return of lines 697-699 returns an empty list
NetworkingNoneWithoutIPs(matches, ipMap, st, podIPs, getFails) ==
  LET foundResources ==
        {ResourceKey(matches[i].Resource.kind, matches[i].Resource.name) :
           i \in 1..Len(matches)}
  IN  IF Len(podIPs) = 0 THEN <<>>
      ELSE sortMatchesByConfidence(
             AddNetworkMatches(podIPs, ipMap, st, getFails, matches,
                               foundResources))

\* lines 696-768: the network phase, given the metadata matches of line
\* 691; ipMap is the index after the refresh of lines 702-706
FindCrossplaneResourcesForNamespaceWithNetworking(matches, ipMap, st, podIPs, getFails) ==
  LET foundResources ==
        {ResourceKey(matches[i].Resource.kind, matches[i].Resource.name) :
           i \in 1..Len(matches)}
  IN  IF Len(podIPs) = 0 THEN matches
      ELSE sortMatchesByConfidence(
             AddNetworkMatches(podIPs, ipMap, st, getFails, matches,
                               foundResources))

(* ------------------------------ label applier -------------------------- *)

\* variant: lines 410-415 replace the label set by the desired labels
ReplaceLabels(currentLabels, labels) == labels

\* lines 410-415: desired labels laid over the current ones
MergeLabels(currentLabels, labels) ==
  [k \in DOMAIN currentLabels \cup DOMAIN labels |->
     IF k \in DOMAIN labels THEN labels[k] ELSE currentLabels[k]]

\* variant: line 413 sets labelsChanged for every desired key
LabelsIterated(currentLabels, labels) == DOMAIN labels # {}

\* lines 407-415: whether the loop assigned any key
LabelsChanged(currentLabels, labels) ==
  \E k \in DOMAIN labels :
    k \notin DOMAIN currentLabels \/ currentLabels[k] # labels[k]

\* variant: line 401 takes the labels of the copy the caller holds
ApplyLabelsOfCopy(st, resource, labels, getFails, updateFails) ==
  LET gvr == GVROf(resource.kind, resource.group, resource.version)
      got == IF getFails THEN {} ELSE GetIds(st, gvr, resource.name)
      none == [err |-> "failed to get resource", read |-> FALSE,
               current |-> EmptyMap, updates |-> 0, written |-> EmptyMap,
               store |-> st]
  IN  IF got = {} THEN none
      ELSE LET id == CHOOSE x \in got : TRUE
               currentLabels == resource.labels
               merged == MergeLabels(currentLabels, labels)
               seen == [none EXCEPT !.read = TRUE, !.current = currentLabels]
           IN  IF ~LabelsChanged(currentLabels, labels)
                 THEN [seen EXCEPT !.err = "nil"]
               ELSE IF updateFails
                 THEN [seen EXCEPT !.err = "failed to update resource",
                                   !.updates = 1, !.written = merged]
               ELSE [seen EXCEPT !.err = "nil", !.updates = 1,
                                 !.written = merged,
                                 !.store = [st EXCEPT ![id] = merged]]

\* lines 387-434: the outcome of one apply.  getFails / updateFails say
\* whether the store rejects the Get / the Update of this call.
ApplyLabelsToResource(st, resource, labels, getFails, updateFails) ==
  LET gvr == GVROf(resource.kind, resource.group, resource.version)
      got == IF getFails THEN {} ELSE GetIds(st, gvr, resource.name)
      none == [err |-> "failed to get resource", read |-> FALSE,
               current |-> EmptyMap, updates |-> 0, written |-> EmptyMap,
               store |-> st]
  IN  IF got = {} THEN none
      ELSE LET id == CHOOSE x \in got : TRUE
               currentLabels == st[id]
               merged == MergeLabels(currentLabels, labels)
               seen == [none EXCEPT !.read = TRUE, !.current = currentLabels]
           IN  IF ~LabelsChanged(currentLabels, labels)
                 THEN [seen EXCEPT !.err = "nil"]
               ELSE IF updateFails
                 THEN [seen EXCEPT !.err = "failed to update resource",
                                   !.updates = 1, !.written = merged]
               ELSE [seen EXCEPT !.err = "nil", !.updates = 1,
                                 !.written = merged,
                                 !.store = [st EXCEPT ![id] = merged]]

\* line 395: what Get returns, with the resourceVersion the object is
\* stored under
GetCurrent(st, rvs, gvr, name) ==
  LET got == GetIds(st, gvr, name)
  IN  IF got = {}
        THEN [found |-> FALSE, id |-> 0, labels |-> EmptyMap,
              resourceVersion |-> 0]
      ELSE LET id == CHOOSE x \in got : TRUE
           IN  [found |-> TRUE, id |-> id, labels |-> st[id],
                resourceVersion |-> rvs[id]]

\* variant: line 427 sends the labels without the resourceVersion read
UpdateUnconditional(st, rvs, id, labels, resourceVersion) ==
  [ok |-> TRUE, store |-> [st EXCEPT ![id] = labels],
   rvs |-> [rvs EXCEPT ![id] = @ + 1]]

\* lines 425-430: Update of the object read at line 395 with its labels
\* set; the object carries the resourceVersion it was read at, and the API
\* server commits it only when the stored object still has that version
Update(st, rvs, id, labels, resourceVersion) ==
  IF rvs[id] = resourceVersion
    THEN [ok |-> TRUE, store |-> [st EXCEPT ![id] = labels],
          rvs |-> [rvs EXCEPT ![id] = @ + 1]]
  ELSE [ok |-> FALSE, store |-> st, rvs |-> rvs]

(* ------------------------------ controllers ---------------------------- *)

\* the namespaces of the cluster, as the API server lists them
NamespaceList == << <<"a", "b">>, <<"c">> >>

\* regexp.Compile, for patterns of letters and brackets: a "[" that no "]"
\* closes is malformed
CompileFails(pattern) ==
  \E i \in 1..Len(pattern) :
    pattern[i] = "[" /\ \A j \in (i + 1)..Len(pattern) : pattern[j] # "]"

\* Regexp.MatchString of a compiled pattern of letters: an unanchored search
MatchString(pattern, s) == Contains(s, pattern)

\* variant: line 269 ignores the compile error and selects every namespace
fetchNamespacesLenient(namespaceList, selector, listFails) ==
  IF listFails THEN [err |-> "list failed", items |-> <<>>]
  ELSE IF selector = <<>> \/ CompileFails(selector)
    THEN [err |-> "nil", items |-> namespaceList]
  ELSE [err |-> "nil",
        items |-> SelectSeq(namespaceList,
                            LAMBDA ns : MatchString(selector, ns))]

\* controller lines 252-285
fetchNamespaces(namespaceList, selector, listFails) ==
  IF listFails THEN [err |-> "list failed", items |-> <<>>]
  ELSE IF selector = <<>> THEN [err |-> "nil", items |-> namespaceList]
  ELSE IF CompileFails(selector)
    THEN [err |-> "error parsing regexp", items |-> <<>>]
  ELSE [err |-> "nil",
        items |-> SelectSeq(namespaceList,
                            LAMBDA ns : MatchString(selector, ns))]

\* controller lines 288-325: cluster is the list of the pods that run
RECURSIVE fetchPods(_, _, _, _, _)
fetchPods(cluster, namespaces, selector, listFails, allPods) ==
  IF namespaces = <<>> THEN [err |-> "nil", items |-> allPods]
  ELSE LET podList == SelectSeq(cluster,
                                LAMBDA p : p.namespace = Head(namespaces))
       IN  IF listFails THEN [err |-> "list failed", items |-> <<>>]
           ELSE IF selector = <<>>
             THEN fetchPods(cluster, Tail(namespaces), selector, listFails,
                            allPods \o podList)
           ELSE IF CompileFails(selector)
             THEN [err |-> "error parsing regexp", items |-> <<>>]
           ELSE fetchPods(cluster, Tail(namespaces), selector, listFails,
                          allPods \o SelectSeq(podList,
                                       LAMBDA p : MatchString(selector,
                                                              p.name)))

\* controller lines 149-156: the addresses of a pod
PodIPsOf(pod) ==
  IF pod.podIP # <<>> /\ Len(pod.podIPs) = 0 THEN << pod.podIP >>
  ELSE pod.podIPs

\* F applied to the value of v, which is computed once
Eval(v, F(_)) == CHOOSE y \in {F(x) : x \in {v}} : TRUE

\* what a pass has done so far: the store and the handler it leaves, the
\* resolutions it ran, the resources they returned and the applies it made
Progress(st, h) ==
  [store |-> st, handler |-> h, resolved |-> 0, matched |-> <<>>,
   attempts |-> <<>>, labelErrors |-> 0, resourcesLabeled |-> 0,
   err |-> "nil"]

\* one apply made by a pass, added to its progress
Attempted(acc, resource, r) ==
  [acc EXCEPT !.store = r.store,
              !.attempts = Append(@, [id |-> resource.id, err |-> r.err,
                                      updates |-> r.updates]),
              !.labelErrors = IF r.err = "nil" THEN @ ELSE @ + 1,
              !.resourcesLabeled = IF r.err = "nil" THEN @ + 1 ELSE @,
              !.err = r.err]

RECURSIVE ApplyEach(_, _, _, _, _)
RECURSIVE ApplyEachUntilFailure(_, _, _, _, _)

\* variant: line 184 leaves the loop at the first apply that fails
ApplyEachUntilFailure(resources, labels, getFails, updateFails, acc) ==
  IF resources = <<>> THEN acc
  ELSE LET resource == Head(resources).Resource
       IN  Eval(ApplyLabelsToResource(acc.store, resource, labels,
                                      resource.id \in getFails,
                                      resource.id \in updateFails),
                LAMBDA r :
                  IF r.err # "nil" THEN Attempted(acc, resource, r)
                  ELSE Eval(Attempted(acc, resource, r),
                            LAMBDA next :
                              ApplyEachUntilFailure(Tail(resources), labels,
                                                    getFails, updateFails,
                                                    next)))

\* controller lines 174-192: the applies to the matches of one pod
ApplyEach(resources, labels, getFails, updateFails, acc) ==
  IF resources = <<>> THEN acc
  ELSE LET resource == Head(resources).Resource
       IN  Eval(ApplyLabelsToResource(acc.store, resource, labels,
                                      resource.id \in getFails,
                                      resource.id \in updateFails),
                LAMBDA r :
                  Eval(Attempted(acc, resource, r),
                       LAMBDA next :
                         ApplyEach(Tail(resources), labels, getFails,
                                   updateFails, next)))

\* controller lines 158-162: resolveByNameWithNetwork for one pod, added to
\* the progress of the pass
Resolved(acc, pod, t, failing, ord, getFails) ==
  LET podIPs == PodIPsOf(pod)
      refreshed(h1) == IF Len(podIPs) = 0 THEN h1
                       ELSE RefreshIfEmptyOrStale(h1, acc.store, t, failing,
                                                  ord)
  IN  Eval(refreshed(RefreshIfStale(acc.handler, acc.store, t, failing,
                                    ord)),
           LAMBDA h :
             [progress |-> [acc EXCEPT !.handler = h, !.resolved = @ + 1],
              resources |->
                FindCrossplaneResourcesForNamespaceWithNetworking(
                  FindCrossplaneResourcesForNamespaceWithConfidence(
                    acc.store, pod.namespace, failing, ord),
                  h.resourceIPMap, acc.store, podIPs, getFails)])

\* the identifiers of a list of matches
MatchedIds(resources) ==
  [i \in 1..Len(resources) |-> resources[i].Resource.id]

\* controller lines 148-193: the loop over the pods
RECURSIVE LabelPods(_, _, _, _, _, _, _, _)
LabelPods(pods, labels, t, failing, ord, getFails, updateFails, acc) ==
  IF pods = <<>> THEN acc
  ELSE Eval(Resolved(acc, Head(pods), t, failing, ord, getFails),
            LAMBDA found :
              Eval(ApplyEach(found.resources, labels, getFails, updateFails,
                             [found.progress EXCEPT
                                !.matched = @ \o MatchedIds(
                                                   found.resources)]),
                   LAMBDA next :
                     LabelPods(Tail(pods), labels, t, failing, ord,
                               getFails, updateFails, next)))

\* updateCondition, lines 328-357: the conditions with one of them set
updateCondition(conditions, conditionType, status) ==
  [k \in DOMAIN conditions \cup {conditionType} |->
     IF k = conditionType THEN status ELSE conditions[k]]

\* the outcome of a pass: how Reconcile returned, what it did, the
\* conditions on the object it holds and whether the status was written
Outcome(controller, result, e, acc, conditions, reason, written) ==
  [controller |-> controller, result |-> result, err |-> e,
   store |-> acc.store, handler |-> acc.handler,
   resolved |-> acc.resolved, matched |-> acc.matched,
   attempts |-> acc.attempts, labelErrors |-> acc.labelErrors,
   resourcesLabeled |-> acc.resourcesLabeled, conditions |-> conditions,
   reason |-> reason, written |-> written]

\* CrossplaneLabellerReconciler.Reconcile, controller lines 60-249, for
\* the object spec of a CrossplaneLabeller whose status holds conditions
ReconcileLabeller(st, h, t, conditions, cluster, spec, env) ==
  LET namespaces == fetchNamespaces(NamespaceList, spec.NamespaceSelector,
                                    env.listFails = "namespaces")
      pods == fetchPods(cluster, namespaces.items, spec.PodSelector,
                        env.listFails = "pods", <<>>)
      none == Progress(st, h)
      notReady == updateCondition(conditions, "Ready", "False")
  IN  IF namespaces.err # "nil"
        THEN Outcome("labeller", "error", namespaces.err, none, notReady,
                     "NamespacesFetchFailed", ~env.statusFails)
      ELSE IF pods.err # "nil"
        THEN Outcome("labeller", "error", pods.err, none, notReady,
                     "PodsFetchFailed", ~env.statusFails)
      ELSE LET ready == updateCondition(conditions, "Ready", "True")
           IN  Eval(LabelPods(pods.items, spec.Labels, t, env.failing,
                              env.ord, env.getFails, env.updateFails, none),
                    LAMBDA acc :
                      IF env.statusFails
                        THEN Outcome("labeller", "error",
                                     "status update failed", acc, ready,
                                     "ReconciliationSucceeded", FALSE)
                      ELSE Outcome("labeller", "requeue", "nil", acc,
                                   updateCondition(
                                     ready, "LabelingErrors",
                                     IF acc.labelErrors > 0 THEN "True"
                                     ELSE "False"),
                                   "ReconciliationSucceeded", TRUE))

\* lines 772-804
isResourceForWorkload(resource, workloadName) ==
  LET labels == resource.labels
      fpl == IF "labels" \in DOMAIN resource.fpSub
               THEN resource.fpSub["labels"] ELSE EmptyMap
      named(m) == \E k \in {"workload-name", "app"} :
                    k \in DOMAIN m /\ m[k] = workloadName
  IN  \/ named(labels)
      \/ Contains(ToLower(resource.name), ToLower(workloadName))
      \/ named(fpl)

\* lines 358-372: the loop over the listed items
RECURSIVE ScanWorkload(_, _, _, _)
ScanWorkload(items, workloadName, resources, foundResources) ==
  IF items = <<>> THEN resources
  ELSE LET item == Head(items)
           resourceKey == ResourceKey(item.kind, item.name)
       IN  IF resourceKey \notin foundResources
              /\ isResourceForWorkload(item, workloadName)
             THEN ScanWorkload(Tail(items), workloadName,
                               Append(resources, item),
                               foundResources \cup {resourceKey})
           ELSE ScanWorkload(Tail(items), workloadName, resources,
                             foundResources)

\* lines 339-376
FindCrossplaneResourcesForWorkload(st, workloadName, failing) ==
  ScanWorkload(ListAll(st, failing), workloadName, <<>>, {})

\* part_000 lines 57-71: the labels taken from the pod, the empty ones
\* removed
WorkloadLabels(pod, workloadName) ==
  LET of(k) == IF k \in DOMAIN pod.labels THEN pod.labels[k] ELSE <<>>
      labels == M1("workload-name", workloadName)
                  @@ [k \in {"department", "pl-category", "sw-part-number",
                             "environment-name"} |-> of(k)]
                  @@ M1("team", of("team"))
  IN  [k \in {x \in DOMAIN labels : labels[x] # <<>>} |-> labels[k]]

\* part_000 lines 55-81: the loop over the resources of the workload
RECURSIVE ApplyUntilError(_, _, _, _, _)
ApplyUntilError(resources, labels, getFails, updateFails, acc) ==
  IF resources = <<>> THEN acc
  ELSE LET resource == Head(resources)
       IN  Eval(ApplyLabelsToResource(acc.store, resource, labels,
                                      resource.id \in getFails,
                                      resource.id \in updateFails),
                LAMBDA r :
                  IF r.err # "nil" THEN Attempted(acc, resource, r)
                  ELSE Eval(Attempted(acc, resource, r),
                            LAMBDA next :
                              ApplyUntilError(Tail(resources), labels,
                                              getFails, updateFails, next)))

\* GCPResourceReconciler.Reconcile, part_000 lines 29-84, for the pod of
\* the request; podGet is how the read of the pod ends
ReconcileWorkload(st, h, conditions, pod, podGet, env) ==
  LET none == Progress(st, h)
      workloadName == IF "workload-name" \in DOMAIN pod.labels
                         /\ pod.labels["workload-name"] # <<>>
                        THEN pod.labels["workload-name"] ELSE pod.name
      listed(crossplaneResources) ==
        [none EXCEPT
           !.resolved = 1,
           !.matched = [i \in 1..Len(crossplaneResources) |->
                          crossplaneResources[i].id]]
      labelled(crossplaneResources) ==
        ApplyUntilError(crossplaneResources,
                        WorkloadLabels(pod, workloadName), env.getFails,
                        env.updateFails, listed(crossplaneResources))
  IN  IF podGet = "not found"
        THEN Outcome("workload", "done", "nil", none, conditions, "", FALSE)
      ELSE IF podGet # "ok"
        THEN Outcome("workload", "error", podGet, none, conditions, "",
                     FALSE)
      ELSE Eval(Eval(FindCrossplaneResourcesForWorkload(st, workloadName,
                                                        env.failing),
                     labelled),
                LAMBDA acc :
                  IF acc.err # "nil"
                    THEN Outcome("workload", "error", acc.err, acc,
                                 conditions, "", FALSE)
                  ELSE Outcome("workload", "done", "nil", acc, conditions,
                               "", FALSE))

(* ------------------------------ state machine -------------------------- *)

VARIABLES
  store,                \* labels the store holds, per stored object
  resourceIPMap,        \* handler field: address -> identifiers
  lastNetworkMapBuild,  \* handler field: time of the last rebuild
  now,                  \* the wall clock, in minutes
  op,                   \* the operation that ran last
  call,                 \* its arguments and environment
  matches,              \* the list the last resolve returned
  applied,              \* the outcome of the last apply
  err,                  \* the error the last operation returned
  built,                \* the rebuilds the last operation performed
  building,             \* the frame of a BuildNetworkMap that is running
  seen,                 \* what the last lookup read from the index
  resourceVersions,     \* the resourceVersion the store holds, per object
  inflight,             \* the frame of each writer's running apply
  finished,             \* the frame of the apply that returned last
  pass,                 \* the outcome of the pass that ran last
  conditions            \* the conditions in the CrossplaneLabeller status

vars == << store, resourceIPMap, lastNetworkMapBuild, now, op, call,
           matches, applied, err, built, building, seen, resourceVersions,
           inflight, finished, pass, conditions >>

\* the variables that only the step-by-step specifications change
racing == << resourceVersions, inflight, finished >>

passing == << pass, conditions >>

others == << building, seen, racing, passing >>

\* the passes that may run an apply at the same time
Writers == {"pass1", "pass2"}

\* the labels a writer outside the operator sets
ExternalLabels == { M1("team", <<"z">>) }

\* no apply is running for a writer
NoFrame ==
  [pc |-> "none", id |-> 0, labels |-> EmptyMap, read |-> EmptyMap,
   resourceVersion |-> 0, overlapped |-> FALSE]

\* no apply has returned.  Of an apply that returned: the object, the
\* error, whether another writer committed between its read and its
\* write, whether the labels it had read were still the stored ones when it
\* wrote, and whether its Update left the stored labels as they were
NoOutcome ==
  [pc |-> "none", id |-> 0, err |-> "nil", overlapped |-> FALSE,
   fresh |-> TRUE, kept |-> TRUE]

handler == [resourceIPMap |-> resourceIPMap,
            lastNetworkMapBuild |-> lastNetworkMapBuild]

\* target names handed to the resolver
Namespaces == { <<"a", "b">>, <<"c">> }

\* addresses pods are observed with
Addresses == { <<"1", ".", "2", ".", "3", ".", "4">>, <<"1", ".", "2", ".", "3", ".", "5">> }

PodIPLists == UNION {[1..n -> Addresses] : n \in 0..MaxPodIPs}

\* label sets handed to apply
DesiredLabels == { EmptyMap, M1("team", <<"x">>),
                   M2("team", <<"y">>, "namespace", <<"a", "b">>) }

\* catalogue positions under which the store serves at least one object;
\* the listing of any other type returns no item whether it fails or not
Populated(st) ==
  {c \in 1..Len(GetCrossplaneResourceTypes) :
     Served(st, GetCrossplaneResourceTypes[c]) # {}}

FailSets(st) == {F \in SUBSET Populated(st) : Cardinality(F) <= MaxFail}

GetFailSets(st) == {F \in SUBSET DOMAIN st : Cardinality(F) <= MaxGetFail}

NoCall == [namespace |-> <<>>, podIPs |-> <<>>, failing |-> {},
           getFails |-> {}, ord |-> AllKeys]

NoApply == [err |-> "nil", read |-> FALSE, current |-> EmptyMap,
            updates |-> 0, written |-> EmptyMap, resource |-> 0,
            version |-> "", labels |-> EmptyMap, exists |-> FALSE,
            persisted |-> EmptyMap, getFails |-> FALSE,
            updateFails |-> FALSE]

\* no BuildNetworkMap is running
NoBuild == [pos |-> 0, resourceMap |-> EmptyMap, failing |-> {},
            ord |-> AllKeys, old |-> EmptyMap]

\* the pods a cluster may run, both in namespace "ab": one with an address
\* list, one with a single address
PodUniverse == <<
  [namespace |-> <<"a", "b">>, name |-> <<"a", "p", "i">>,
   podIPs |-> << <<"1", ".", "2", ".", "3", ".", "4">> >>,
   podIP |-> <<"1", ".", "2", ".", "3", ".", "4">>],
  [namespace |-> <<"a", "b">>, name |-> <<"j", "o", "b">>,
   podIPs |-> <<>>, podIP |-> <<"1", ".", "2", ".", "3", ".", "5">>] >>

\* the lists of pods a cluster may run
Clusters ==
  {[i \in 1..Len(Ascending(P)) |-> PodUniverse[Ascending(P)[i]]] :
     P \in {Q \in SUBSET (1..Len(PodUniverse)) : Cardinality(Q) <= MaxPods}}

\* the specs of the CrossplaneLabeller objects
LabellerSpecs ==
  {[NamespaceSelector |-> n, PodSelector |-> p,
    Labels |-> M1("team", <<"x">>)] :
     n \in {<<>>, <<"c">>, <<"z">>, <<"[">>}, p \in {<<>>, <<"[">>}}

\* the pods whose events the workload reconciler receives
WorkloadPods ==
  { [name |-> <<"j", "o", "b">>,
     labels |-> M2("workload-name", <<"a", "b">>, "team", <<"x">>)] }

RejectSets(st) == {F \in SUBSET DOMAIN st : Cardinality(F) <= MaxReject}

\* a pass during which the API server answers every request
Calm ==
  [listFails |-> "none", failing |-> {}, ord |-> AllKeys, getFails |-> {},
   updateFails |-> {}, statusFails |-> FALSE]

\* what the API server does during one pass, with one kind of fault at
\* most: the cluster listing that fails, the status writes rejected, the
\* catalogue listings that fail, the objects whose Get or whose Update is
\* rejected; and the map order of the pass
Environments(st) ==
  LET faults ==
        {[Calm EXCEPT !.listFails = l] : l \in {"namespaces", "pods"}}
          \cup {[Calm EXCEPT !.statusFails = TRUE]}
          \cup {[Calm EXCEPT !.failing = F] : F \in FailSets(st)}
          \cup {[Calm EXCEPT !.getFails = F] : F \in RejectSets(st)}
          \cup {[Calm EXCEPT !.updateFails = F] : F \in RejectSets(st)}
  IN  {[f EXCEPT !.ord = o] : f \in faults, o \in KeyOrders(st)}

\* no pass has run
NoPass ==
  [controller |-> "none", result |-> "none", err |-> "nil",
   resolved |-> 0, matched |-> <<>>, attempts |-> <<>>, labelErrors |-> 0,
   resourcesLabeled |-> 0, conditions |-> EmptyMap, reason |-> "",
   written |-> FALSE, selector |-> <<>>, podSelector |-> <<>>,
   cluster |-> <<>>, calm |-> TRUE, before |-> EmptyMap,
   indexKept |-> TRUE, settledBefore |-> FALSE, settled |-> FALSE]

\* no lookup was made
NoLookup == [ip |-> <<>>, found |-> FALSE, connected |-> <<>>]

Init ==
  /\ \E ids \in SUBSET DocIds :
       /\ Cardinality(ids) <= MaxStore
       /\ store = [id \in ids |-> Docs[id].labels]
  /\ resourceIPMap = EmptyMap
  /\ lastNetworkMapBuild = ZeroTime
  /\ now = 0
  /\ op = "idle"
  /\ call = NoCall
  /\ matches = <<>>
  /\ applied = NoApply
  /\ err = "nil"
  /\ built = <<>>
  /\ building = NoBuild
  /\ seen = NoLookup
  /\ resourceVersions = [id \in DOMAIN store |-> 0]
  /\ inflight = [w \in Writers |-> NoFrame]
  /\ finished = NoOutcome
  /\ pass = NoPass
  /\ conditions = EmptyMap

\* time passes between two calls
Tick ==
  /\ op = "idle"
  /\ now + TickStep <= MaxTime
  /\ now' = now + TickStep
  /\ UNCHANGED << store, resourceIPMap, lastNetworkMapBuild, op, call,
                  matches, applied, err, built, others >>

\* resolveByName
FindWithConfidence(namespace, failing, ord) ==
  LET h == RefreshIfStale(handler, store, now, failing, ord)
  IN  /\ op = "idle"
      /\ resourceIPMap' = h.resourceIPMap
      /\ lastNetworkMapBuild' = h.lastNetworkMapBuild
      /\ matches' = FindCrossplaneResourcesForNamespaceWithConfidence(
                      store, namespace, failing, ord)
      /\ op' = "FindWithConfidence"
      /\ call' = [NoCall EXCEPT !.namespace = namespace,
                                !.failing = failing, !.ord = ord]
      /\ err' = "nil"
      /\ built' = BuiltIfStale(handler, now)
      /\ UNCHANGED << store, now, applied, others >>

\* resolveByNameWithNetwork, for any observed addresses and any Get
\* failures.  The metadata matches and the refreshed index do not depend on
\* the addresses: they are bound once, as values.
FindWithNetworking(namespace, failing, ord) ==
  /\ op = "idle"
  /\ \E h1 \in {RefreshIfStale(handler, store, now, failing, ord)},
        metadata \in {FindCrossplaneResourcesForNamespaceWithConfidence(
                        store, namespace, failing, ord)} :
       \E h2 \in {RefreshIfEmptyOrStale(h1, store, now, failing, ord)} :
         \E podIPs \in PodIPLists, getFails \in GetFailSets(store) :
           LET h == IF Len(podIPs) = 0 THEN h1 ELSE h2
           IN  /\ resourceIPMap' = h.resourceIPMap
               /\ lastNetworkMapBuild' = h.lastNetworkMapBuild
               /\ matches' =
                    FindCrossplaneResourcesForNamespaceWithNetworking(
                      metadata, h.resourceIPMap, store, podIPs, getFails)
               /\ call' = [namespace |-> namespace, podIPs |-> podIPs,
                           failing |-> failing, getFails |-> getFails,
                           ord |-> ord]
               /\ built' = BuiltIfStale(handler, now)
                             \o IF Len(podIPs) = 0 THEN <<>>
                                ELSE BuiltIfEmptyOrStale(h1, now)
  /\ op' = "FindWithNetworking"
  /\ err' = "nil"
  /\ UNCHANGED << store, now, applied, others >>

\* rebuild
Rebuild(failing, ord) ==
  LET h == Rebuilt(store, failing, ord, now)
  IN  /\ op = "idle"
      /\ resourceIPMap' = h.resourceIPMap
      /\ lastNetworkMapBuild' = h.lastNetworkMapBuild
      /\ op' = "BuildNetworkMap"
      /\ call' = [NoCall EXCEPT !.failing = failing, !.ord = ord]
      /\ err' = "nil"
      /\ built' = << BuiltAt(handler, now) >>
      /\ UNCHANGED << store, now, matches, applied, others >>

\* apply, for the copy of object id read at version v that a caller holds
Apply(id, v, labels, getFails, updateFails) ==
  LET resource == Object(id, v, Docs[id].labels)
      r == ApplyLabelsToResource(store, resource, labels, getFails,
                                 updateFails)
  IN  /\ op = "idle"
      /\ store' = r.store
      /\ applied' = [err |-> r.err, read |-> r.read, current |-> r.current,
                     updates |-> r.updates, written |-> r.written,
                     resource |-> id, version |-> v, labels |-> labels,
                     exists |-> id \in DOMAIN store,
                     persisted |-> IF id \in DOMAIN store THEN store[id]
                                   ELSE EmptyMap,
                     getFails |-> getFails, updateFails |-> updateFails]
      /\ op' = "ApplyLabelsToResource"
      /\ err' = r.err
      /\ UNCHANGED << resourceIPMap, lastNetworkMapBuild, now, call,
                      matches, built, others >>

\* the call returns: the caller takes the result and the frame is dropped
Return ==
  /\ op # "idle"
  /\ op' = "idle"
  /\ call' = NoCall
  /\ matches' = <<>>
  /\ applied' = NoApply
  /\ err' = "nil"
  /\ built' = <<>>
  /\ UNCHANGED << store, resourceIPMap, lastNetworkMapBuild, now, others >>

\* the resolver and the index, over a store that no one writes
Next ==
  \/ Tick
  \/ /\ op = "idle"
     /\ \E ns \in Namespaces, f \in FailSets(store), o \in KeyOrders(store) :
          FindWithConfidence(ns, f, o)
  \/ /\ op = "idle"
     /\ \E ns \in Namespaces, f \in FailSets(store), o \in KeyOrders(store) :
          FindWithNetworking(ns, f, o)
  \/ /\ op = "idle"
     /\ \E f \in FailSets(store), o \in KeyOrders(store) : Rebuild(f, o)
  \/ Return

Spec == Init /\ [][Next]_vars

\* BuildNetworkMap is entered: lines 444-446
BeginBuild(failing, ord) ==
  /\ op = "idle"
  /\ op' = "Building"
  /\ building' = [pos |-> 1, resourceMap |-> EmptyMap, failing |-> failing,
                  ord |-> ord, old |-> resourceIPMap]
  /\ seen' = NoLookup
  /\ UNCHANGED << store, resourceIPMap, lastNetworkMapBuild, now, call,
                  matches, applied, err, built,
                  racing, passing >>

\* one iteration of the loop of lines 448-472
ListNext ==
  /\ op = "Building"
  /\ building.pos <= Len(GetCrossplaneResourceTypes)
  /\ LET r == ListingStep(handler, building.resourceMap, store,
                          building.pos, building.failing, building.ord)
     IN  /\ resourceIPMap' = r.resourceIPMap
         /\ building' = [building EXCEPT !.pos = building.pos + 1,
                                         !.resourceMap = r.resourceMap]
  /\ UNCHANGED << store, lastNetworkMapBuild, now, op, call, matches,
                  applied, err, built, seen,
                  racing, passing >>

\* line 474: the map is assigned to the handler
Publish ==
  /\ op = "Building"
  /\ building.pos = Len(GetCrossplaneResourceTypes) + 1
  /\ resourceIPMap' = building.resourceMap
  /\ building' = [building EXCEPT !.pos = building.pos + 1]
  /\ UNCHANGED << store, lastNetworkMapBuild, now, op, call, matches,
                  applied, err, built, seen,
                  racing, passing >>

\* lines 475-477: the build time is set and BuildNetworkMap returns nil
Stamp ==
  /\ op = "Building"
  /\ building.pos = Len(GetCrossplaneResourceTypes) + 2
  /\ lastNetworkMapBuild' = now
  /\ building' = NoBuild
  /\ op' = "idle"
  /\ err' = "nil"
  /\ UNCHANGED << store, resourceIPMap, now, call, matches, applied, built,
                  seen,
                  racing, passing >>

\* lines 719-722: a lookup of one pod address, at any moment
Lookup(ip) ==
  /\ seen' = [ip |-> ip, found |-> ip \in DOMAIN resourceIPMap,
              connected |-> IF ip \in DOMAIN resourceIPMap
                              THEN resourceIPMap[ip] ELSE <<>>]
  /\ UNCHANGED << store, resourceIPMap, lastNetworkMapBuild, now, op, call,
                  matches, applied, err, built, building,
                  racing, passing >>

\* a rebuild step by step, with lookups at any moment
BuildNext ==
  \/ \E f \in FailSets(store), o \in KeyOrders(store) : BeginBuild(f, o)
  \/ ListNext
  \/ Publish
  \/ Stamp
  \/ \E ip \in Addresses : Lookup(ip)

BuildSpec == Init /\ [][BuildNext]_vars

\* the commits the store has taken, over the objects ids
RECURSIVE Commits(_, _)
Commits(rvs, ids) ==
  IF ids = {} THEN 0
  ELSE LET x == CHOOSE y \in ids : TRUE
       IN  rvs[x] + Commits(rvs, ids \ {x})

\* the frames of the applies that have read object id and not yet written,
\* marked as overtaken by a commit of another writer
Overtaken(frames, id, writer) ==
  [w \in Writers |->
     IF w # writer /\ frames[w].pc = "read" /\ frames[w].id = id
       THEN [frames[w] EXCEPT !.overlapped = TRUE]
     ELSE frames[w]]

\* lines 387-422 run by writer w: the read, the merge and the skip
ApplyRead(w, id, v, labels) ==
  LET resource == Object(id, v, Docs[id].labels)
      gvr == GVROf(resource.kind, resource.group, resource.version)
      current == GetCurrent(store, resourceVersions, gvr, resource.name)
      frame == [NoFrame EXCEPT !.labels = labels, !.id = current.id,
                               !.read = current.labels]
  IN  /\ op = "idle"
      /\ inflight[w].pc = "none"
      /\ Commits(resourceVersions, DOMAIN store) < MaxCommits
      /\ IF ~current.found
           THEN /\ finished' = [NoOutcome EXCEPT
                                  !.pc = "done",
                                  !.err = "failed to get resource"]
                /\ UNCHANGED inflight
         ELSE IF ~LabelsChanged(current.labels, labels)
           THEN /\ finished' = [NoOutcome EXCEPT !.pc = "done",
                                                 !.id = current.id]
                /\ UNCHANGED inflight
         ELSE /\ inflight' =
                   [inflight EXCEPT ![w] =
                      [frame EXCEPT !.pc = "read",
                                    !.resourceVersion =
                                       current.resourceVersion]]
              /\ UNCHANGED finished
      /\ UNCHANGED << store, resourceIPMap, lastNetworkMapBuild, now, op,
                      call, matches, applied, err, built, building, seen,
                      resourceVersions,
                  passing >>

\* lines 425-434 run by writer w: the Update and the return value
ApplyWrite(w) ==
  LET f == inflight[w]
      u == Update(store, resourceVersions, f.id,
                  MergeLabels(f.read, f.labels), f.resourceVersion)
  IN  /\ f.pc = "read"
      /\ store' = u.store
      /\ resourceVersions' = u.rvs
      /\ finished' = [pc |-> "done", id |-> f.id,
                       err |-> IF u.ok THEN "nil"
                               ELSE "failed to update resource",
                       overlapped |-> f.overlapped,
                       fresh |-> store[f.id] = f.read,
                       kept |-> u.store[f.id] = store[f.id]]
      /\ inflight' =
           IF u.ok
             THEN [Overtaken(inflight, f.id, w) EXCEPT ![w] = NoFrame]
           ELSE [inflight EXCEPT ![w] = NoFrame]
      /\ UNCHANGED << resourceIPMap, lastNetworkMapBuild, now, op, call,
                      matches, applied, err, built, building, seen,
                  passing >>

\* a writer outside the operator commits labels to object id
ExternalWrite(id, labels) ==
  /\ id \in DOMAIN store
  /\ Commits(resourceVersions, DOMAIN store) < MaxCommits
  /\ store' = [store EXCEPT ![id] = MergeLabels(store[id], labels)]
  /\ resourceVersions' = [resourceVersions EXCEPT ![id] = @ + 1]
  /\ inflight' = Overtaken(inflight, id, "external")
  /\ UNCHANGED finished
  /\ UNCHANGED << passing, resourceIPMap, lastNetworkMapBuild, now, op, call,
                  matches, applied, err, built, building, seen,
                  passing >>

\* applies of two passes and an external writer, interleaved at the calls
\* to the API server
RaceNext ==
  \/ \E w \in Writers, id \in DocIds, v \in {"v1beta1", "v1beta2"},
        l \in DesiredLabels :
       v \in Docs[id].versions /\ ApplyRead(w, id, v, l)
  \/ \E w \in Writers : ApplyWrite(w)
  \/ \E id \in DocIds, l \in ExternalLabels : ExternalWrite(id, l)

RaceSpec == Init /\ [][RaceNext]_vars

\* the pass record of an outcome r of a pass started on store st: what the
\* pass did, the selectors of its object, the pods that ran and whether the
\* API server answered every request
PassOf(r, spec, cluster, env, st) ==
  [controller |-> r.controller, result |-> r.result, err |-> r.err,
   resolved |-> r.resolved, matched |-> r.matched, attempts |-> r.attempts,
   labelErrors |-> r.labelErrors, resourcesLabeled |-> r.resourcesLabeled,
   conditions |-> r.conditions, reason |-> r.reason, written |-> r.written,
   selector |-> spec.NamespaceSelector, podSelector |-> spec.PodSelector,
   cluster |-> cluster, calm |-> [env EXCEPT !.ord = AllKeys] = Calm,
   before |-> st, indexKept |-> TRUE, settledBefore |-> FALSE,
   settled |-> FALSE]

\* the record of a pass p that follows the pass previous of the same
\* object: whether it left the index as it was, and whether some pass up
\* to it has completed with every request answered and every apply
\* succeeding, the index unchanged since
Following(previous, p, kept) ==
  LET succeeded == /\ p.calm
                   /\ p.result = "requeue"
                   /\ \A i \in 1..Len(p.attempts) :
                        p.attempts[i].err = "nil"
  IN  [p EXCEPT !.indexKept = kept,
                !.settledBefore = previous.settled,
                !.settled = succeeded \/ (previous.settled /\ kept)]

\* one pass of the CrossplaneLabeller controller
LabellerPass(cluster, spec, env) ==
  /\ op = "idle"
  /\ pass.controller = "none"
  /\ \E r \in {ReconcileLabeller(store, handler, now, conditions, cluster,
                                 spec, env)} :
       /\ store' = r.store
       /\ resourceIPMap' = r.handler.resourceIPMap
       /\ lastNetworkMapBuild' = r.handler.lastNetworkMapBuild
       /\ conditions' = IF r.written THEN r.conditions ELSE conditions
       /\ pass' = Following(pass, PassOf(r, spec, cluster, env, store),
                            r.handler.resourceIPMap = resourceIPMap)
  /\ UNCHANGED << now, op, call, matches, applied, err, built, building,
                  seen, racing >>

\* the pass that follows a completed pass of the CrossplaneLabeller
\* controller for the same object over the same pods: the requeue of
\* line 248
LabellerRequeue(env) ==
  /\ op = "idle"
  /\ pass.controller = "labeller"
  /\ pass.result = "requeue"
  /\ \E spec \in {x \in LabellerSpecs :
                    /\ x.NamespaceSelector = pass.selector
                    /\ x.PodSelector = pass.podSelector} :
       \E r \in {ReconcileLabeller(store, handler, now, conditions,
                                   pass.cluster, spec, env)} :
         /\ store' = r.store
         /\ resourceIPMap' = r.handler.resourceIPMap
         /\ lastNetworkMapBuild' = r.handler.lastNetworkMapBuild
         /\ conditions' = IF r.written THEN r.conditions ELSE conditions
         /\ pass' = Following(pass,
                              PassOf(r, spec, pass.cluster, env, store),
                              r.handler.resourceIPMap = resourceIPMap)
  /\ UNCHANGED << now, op, call, matches, applied, err, built, building,
                  seen, racing >>

\* one pass of the workload reconciler, which has a handler of its own and
\* never reads its index
WorkloadPass(pod, podGet, env) ==
  /\ op = "idle"
  /\ pass.controller = "none"
  /\ \E r \in {ReconcileWorkload(store, handler, conditions, pod, podGet,
                                 env)} :
       /\ store' = r.store
       /\ pass' = PassOf(r, [NamespaceSelector |-> <<>>, PodSelector |-> <<>>],
                          <<>>, env, store)
  /\ UNCHANGED << resourceIPMap, lastNetworkMapBuild, conditions, now, op,
                  call, matches, applied, err, built, building, seen,
                  racing >>

\* Reconcile returns to the controller runtime
PassReturn ==
  /\ pass.controller # "none"
  /\ pass' = NoPass
  /\ UNCHANGED << store, resourceIPMap, lastNetworkMapBuild, conditions,
                  now, op, call, matches, applied, err, built, building,
                  seen, racing >>

\* passes of the two controllers, one at a time
PassNext ==
  \/ \E cluster \in Clusters, spec \in LabellerSpecs,
        env \in Environments(store) :
       LabellerPass(cluster, spec, env)
  \/ \E pod \in WorkloadPods, env \in Environments(store) :
       WorkloadPass(pod, "ok", env)
  \/ \E pod \in WorkloadPods, podGet \in {"not found", "timeout"} :
       WorkloadPass(pod, podGet, Calm)
  \/ PassReturn

PassSpec == Init /\ [][PassNext]_vars

\* one CrossplaneLabeller object alone: its first pass and the passes that
\* its requeues start, over the pods that ran at the first
RequeueNext ==
  \/ \E cluster \in Clusters, spec \in LabellerSpecs,
        env \in Environments(store) :
       LabellerPass(cluster, spec, env)
  \/ \E env \in Environments(store) : LabellerRequeue(env)

RequeueSpec == Init /\ [][RequeueNext]_vars

\* the label applier alone
ApplyNext ==
  \/ \E id \in DocIds, v \in {"v1beta1", "v1beta2"}, l \in DesiredLabels,
        gf \in BOOLEAN, uf \in BOOLEAN :
       v \in Docs[id].versions /\ Apply(id, v, l, gf, uf)
  \/ Return

ApplySpec == Init /\ [][ApplyNext]_vars

(* ------------------------------ properties ----------------------------- *)

Resolving == op \in {"FindWithConfidence", "FindWithNetworking"}

Positions == 1..Len(matches)

\* every object the store serves, under each version it is served at
StoredItems ==
  {Item(store, x[1], x[2]) :
     x \in {y \in (DOMAIN store) \X {"v1beta1", "v1beta2"} :
              y[2] \in Docs[y[1]].versions}}

\* the signals that fire for an item and the target name of the call
FiredFor(item) == FiredSignals(item, call.namespace, call.ord)

EvaluatedFor(item) ==
  evaluateResourceMatchForNamespace(item, call.namespace, call.ord)

NetworkReason(r) == r.sig = "network connection from pod IP"

IsNetworkMatch(m) ==
  m.MatchReasons # <<>> /\ NetworkReason(m.MatchReasons[1])

SameResource(a, b) == a.kind = b.kind /\ a.name = b.name

\* the ranked list resolveByName returns for the arguments of the call
MetadataMatches ==
  FindCrossplaneResourcesForNamespaceWithConfidence(
    store, call.namespace, call.failing, call.ord)

\* the weight the specification's signal table gives a reason, in tenths
TableWeight(r) ==
  CASE r.sig = "name contains namespace" -> 8
    [] r.sig \in {"label matches", "forProvider.labels matches"}
       /\ r.key \in {"kubernetes-namespace", "namespace"} -> 9
    [] r.sig \in {"label matches", "forProvider.labels matches"}
       /\ r.key = "environment" -> 7
    [] r.sig = "label value contains namespace" -> 6
    [] r.sig = "forProvider field contains namespace" -> 5

\* C1: a resource for which no identity signal fires is scored confidence
\* exactly 0 with an empty reason list, and resolveByName returns no match
\* for it.
C1_NoSignalNoMatch ==
  op = "FindWithConfidence" =>
    \A item \in StoredItems :
      FiredFor(item) = <<>> =>
        \A e \in {EvaluatedFor(item)} :
          /\ e.confidence = Conf(0, 1)
          /\ e.reasons = <<>>
          /\ \A i \in Positions : matches[i].Resource.id # item.id

\* resolveByName returned a match while a listed object fired no signal
C1_Witness ==
  /\ op = "FindWithConfidence"
  /\ call.failing = {}
  /\ matches # <<>>
  /\ \E item \in StoredItems : FiredFor(item) = <<>>

\* C2: when exactly one signal fires, the scorer returns that signal's
\* weight as confidence and exactly one reason; a lone kubernetes-namespace
\* label gives at least 0.85, a lone name containment at least 0.75 with
\* the name-containment reason; resolveByName returns the match so scored.
C2_SingleSignal ==
  Resolving =>
    \A item \in StoredItems :
      Len(FiredFor(item)) = 1 =>
        \A e \in {EvaluatedFor(item)} :
          /\ Len(e.reasons) = 1
          /\ e.confidence.n = TableWeight(e.reasons[1]) * e.confidence.d
          /\ (/\ e.reasons[1].sig = "label matches"
              /\ e.reasons[1].key = "kubernetes-namespace")
               => 2 * e.confidence.n >= 17 * e.confidence.d
          /\ Contains(ToLower(item.name), ToLower(call.namespace))
               => /\ 2 * e.confidence.n >= 15 * e.confidence.d
                  /\ e.reasons[1].sig = "name contains namespace"
          /\ \A i \in Positions :
               (matches[i].Resource = item /\ ~IsNetworkMatch(matches[i]))
                 => /\ matches[i].MatchReasons = e.reasons
                    /\ matches[i].ConfidenceScore.n
                         = TableWeight(e.reasons[1])
                             * matches[i].ConfidenceScore.d

\* the returned list holds a match whose only signal is the name and one
\* whose only signal is the kubernetes-namespace label
C2_Witness ==
  /\ op = "FindWithConfidence"
  /\ \E i \in Positions :
       /\ Len(FiredFor(matches[i].Resource)) = 1
       /\ matches[i].MatchReasons[1].sig = "name contains namespace"
  /\ \E i \in Positions :
       /\ Len(FiredFor(matches[i].Resource)) = 1
       /\ matches[i].MatchReasons[1].key = "kubernetes-namespace"

\* C3: no list returned by resolveByName or resolveByNameWithNetwork holds
\* two matches with the same kind/name key.
C3_NoDuplicateKey ==
  Resolving =>
    \A i, j \in Positions :
      i # j => ~SameResource(matches[i].Resource, matches[j].Resource)

\* the list holds an object the store serves under two catalogue versions
\* and a network match for an object that two observed addresses lead to
C3_Witness ==
  /\ op = "FindWithNetworking"
  /\ \E i \in Positions :
       Cardinality(Docs[matches[i].Resource.id].versions) > 1
  /\ \E i \in Positions :
       /\ IsNetworkMatch(matches[i])
       /\ \E k1, k2 \in 1..Len(call.podIPs) :
            /\ call.podIPs[k1] # call.podIPs[k2]
            /\ \A k \in {k1, k2} :
                 /\ call.podIPs[k] \in DOMAIN resourceIPMap
                 /\ \E n \in 1..Len(resourceIPMap[call.podIPs[k]]) :
                      resourceIPMap[call.podIPs[k]][n].Name
                        = matches[i].Resource.name

\* C4: given an empty address list, resolveByNameWithNetwork returns
\* exactly the ordered list resolveByName returns for the same target name.
C4_NoAddressesSameList ==
  (op = "FindWithNetworking" /\ call.podIPs = <<>>)
    => matches = MetadataMatches

\* a call without addresses that returned two matches
C4_Witness ==
  /\ op = "FindWithNetworking"
  /\ call.podIPs = <<>>
  /\ Len(matches) >= 2

\* C5: every match the network phase adds has confidence exactly 0.90 and
\* exactly one reason, citing the observed address that led to it, in the
\* list as returned after the final sort.
C5_NetworkMatchShape ==
  op = "FindWithNetworking" =>
    \A md \in {MetadataMatches}, i \in Positions :
      (\A k \in 1..Len(md) :
         ~SameResource(md[k].Resource, matches[i].Resource))
        => /\ matches[i].ConfidenceScore.n = 9 * matches[i].ConfidenceScore.d
           /\ Len(matches[i].MatchReasons) = 1
           /\ NetworkReason(matches[i].MatchReasons[1])
           /\ LET ip == matches[i].MatchReasons[1].val
              IN  /\ \E k \in 1..Len(call.podIPs) : call.podIPs[k] = ip
                  /\ ip \in DOMAIN resourceIPMap
                  /\ \E n \in 1..Len(resourceIPMap[ip]) :
                       /\ resourceIPMap[ip][n].Kind
                            = matches[i].Resource.kind
                       /\ resourceIPMap[ip][n].Name
                            = matches[i].Resource.name

\* the final sort moved a network match in front of a metadata match
C5_Witness ==
  /\ op = "FindWithNetworking"
  /\ Len(matches) >= 2
  /\ IsNetworkMatch(matches[1])
  /\ ~IsNetworkMatch(matches[Len(matches)])
  /\ ConfLess(matches[Len(matches)].ConfidenceScore,
              matches[1].ConfidenceScore)

\* C6: for every observed address that the index holds at lookup time,
\* every resource the index maps it to and the metadata scan did not match
\* is in the list resolveByNameWithNetwork returns, with confidence 0.90,
\* whatever its kind (stated for a store that answers every fetch).
C6_IndexedResourceReturned ==
  (op = "FindWithNetworking" /\ call.getFails = {}) =>
    \A md \in {MetadataMatches}, k \in 1..Len(call.podIPs) :
      call.podIPs[k] \in DOMAIN resourceIPMap =>
        \A n \in 1..Len(resourceIPMap[call.podIPs[k]]) :
          LET c == resourceIPMap[call.podIPs[k]][n]
          IN  (\A q \in 1..Len(md) :
                 ~(/\ md[q].Resource.kind = c.Kind
                   /\ md[q].Resource.name = c.Name))
                => \E i \in Positions :
                     /\ matches[i].Resource.kind = c.Kind
                     /\ matches[i].Resource.name = c.Name
                     /\ matches[i].ConfidenceScore.n
                          = 9 * matches[i].ConfidenceScore.d

\* the restriction of C6_IndexedResourceReturned to the kinds whose
\* collection is the lower-cased kind plus "s"
C6_RegularKindReturned ==
  (op = "FindWithNetworking" /\ call.getFails = {}) =>
    \A md \in {MetadataMatches}, k \in 1..Len(call.podIPs) :
      call.podIPs[k] \in DOMAIN resourceIPMap =>
        \A n \in 1..Len(resourceIPMap[call.podIPs[k]]) :
          LET c == resourceIPMap[call.podIPs[k]][n]
          IN  (/\ \E t \in 1..Len(GetCrossplaneResourceTypes) :
                    GetCrossplaneResourceTypes[t]
                      = GVROf(c.Kind, c.Group, c.Version)
               /\ \A q \in 1..Len(md) :
                    ~(/\ md[q].Resource.kind = c.Kind
                      /\ md[q].Resource.name = c.Name))
                => \E i \in Positions :
                     /\ matches[i].Resource.kind = c.Kind
                     /\ matches[i].Resource.name = c.Name
                     /\ matches[i].ConfidenceScore.n
                          = 9 * matches[i].ConfidenceScore.d

\* every desired key is persisted with the desired value before the call
AllPersisted ==
  \A k \in DOMAIN applied.labels :
    k \in DOMAIN applied.persisted
      /\ applied.persisted[k] = applied.labels[k]

\* the call was made for a stored resource and the store answered it
Answered ==
  /\ op = "ApplyLabelsToResource"
  /\ applied.exists
  /\ ~applied.getFails
  /\ ~applied.updateFails

\* the outcome of applying the same labels to the same resource once more
ApplyAgain ==
  ApplyLabelsToResource(
    store,
    Object(applied.resource, applied.version,
           Docs[applied.resource].labels),
    applied.labels, FALSE, FALSE)

\* C7: when every desired key is already persisted with the desired value
\* (desired labels equal to the current ones, or empty, included), apply
\* writes nothing and returns success; applying the same labels twice in a
\* row writes at most once.
C7_ApplyIdempotent ==
  Answered =>
    /\ AllPersisted => (applied.updates = 0 /\ applied.err = "nil")
    /\ applied.updates + ApplyAgain.updates <= 1

\* the restriction of C7_ApplyIdempotent to the calls whose read succeeds;
\* a call whose read fails writes nothing and returns the error
C7_IdempotentWhenRead ==
  op = "ApplyLabelsToResource" =>
    /\ (applied.read /\ AllPersisted)
         => /\ applied.updates = 0
            /\ applied.err = "nil"
            /\ store[applied.resource] = applied.persisted
    /\ (applied.read /\ applied.err = "nil")
         => (ApplyAgain.updates = 0 /\ ApplyAgain.store = store)
    /\ ~applied.read => (applied.updates = 0 /\ applied.err # "nil")

\* the persisted labels after the union of persisted and desired keys, the
\* desired value winning
Overridden(k) ==
  IF k \in DOMAIN applied.labels THEN applied.labels[k]
  ELSE applied.persisted[k]

\* C8: when some desired key is absent from the persisted labels or has
\* another value there, apply performs exactly one write, of the persisted
\* labels overridden key by key by the desired ones: persisted keys outside
\* the desired labels keep their value, desired keys have the desired
\* value, no key is removed.
C8_OneMergedWrite ==
  (Answered /\ ~AllPersisted) =>
    /\ applied.updates = 1
    /\ DOMAIN applied.written
         = DOMAIN applied.persisted \cup DOMAIN applied.labels
    /\ \A k \in DOMAIN applied.written : applied.written[k] = Overridden(k)
    /\ store[applied.resource] = applied.written

\* the restriction of C8_OneMergedWrite to the calls whose read succeeds
C8_MergedWriteWhenRead ==
  (op = "ApplyLabelsToResource" /\ applied.read /\ ~AllPersisted) =>
    /\ applied.updates = 1
    /\ DOMAIN applied.written
         = DOMAIN applied.persisted \cup DOMAIN applied.labels
    /\ \A k \in DOMAIN applied.written : applied.written[k] = Overridden(k)
    /\ store[applied.resource]
         = IF applied.err = "nil" THEN applied.written
           ELSE applied.persisted

\* the table weights of the signals that fire for the resource of a match
FiredWeights(m) ==
  LET fired == FiredFor(m.Resource)
  IN  [k \in 1..Len(fired) |-> TableWeight(fired[k].reason)]

\* C9: every match resolveByName or resolveByNameWithNetwork returns has a
\* confidence in (0, 1] and at least one reason; a metadata match has as
\* many reasons as signals fired and the confidence that the fired weights
\* alone determine, sum of w^3 over sum of w^2.
C9_MatchWellFormed ==
  Resolving =>
    \A i \in Positions :
      \A m \in {matches[i]}, w \in {FiredWeights(matches[i])} :
        /\ m.ConfidenceScore.d > 0
        /\ m.ConfidenceScore.n > 0
        /\ m.ConfidenceScore.n <= 10 * m.ConfidenceScore.d
        /\ Len(m.MatchReasons) >= 1
        /\ ~IsNetworkMatch(m)
             => /\ Len(m.MatchReasons) = Len(w)
                /\ m.ConfidenceScore.n
                     * SumSeq([k \in 1..Len(w) |-> w[k] * w[k]])
                   = m.ConfidenceScore.d
                     * SumSeq([k \in 1..Len(w) |-> w[k] * w[k] * w[k]])

\* the list holds a metadata match with several reasons next to a network
\* match
C9_Witness ==
  /\ op = "FindWithNetworking"
  /\ \E i \in Positions : IsNetworkMatch(matches[i])
  /\ \E i \in Positions :
       ~IsNetworkMatch(matches[i]) /\ Len(matches[i].MatchReasons) >= 3

\* C10: the list resolveByName returns, and the combined list
\* resolveByNameWithNetwork returns, are in non-increasing order of
\* confidence.
C10_NonIncreasing ==
  Resolving =>
    \A i, j \in Positions :
      i < j => matches[i].ConfidenceScore.n * matches[j].ConfidenceScore.d
                 >= matches[j].ConfidenceScore.n
                      * matches[i].ConfidenceScore.d

\* a combined list of three matches of three distinct confidences, a
\* network match among them
C10_Witness ==
  /\ op = "FindWithNetworking"
  /\ Len(matches) = 3
  /\ \E i \in Positions : IsNetworkMatch(matches[i])
  /\ ConfLess(matches[2].ConfidenceScore, matches[1].ConfidenceScore)
  /\ ConfLess(matches[3].ConfidenceScore, matches[2].ConfidenceScore)

\* the matches of a call in the order they were discovered: the metadata
\* scan in catalogue order, then listing order, then the network matches
\* in the order the network phase appended them
Discovered ==
  LET scan == ScanItems(ListAll(store, call.failing), call.namespace,
                        call.ord, <<>>, {})
      md == sortMatchesByConfidence(scan)
      found == {ResourceKey(md[i].Resource.kind, md[i].Resource.name) :
                  i \in 1..Len(md)}
      all == AddNetworkMatches(call.podIPs, resourceIPMap, store,
                               call.getFails, md, found)
  IN  IF op = "FindWithNetworking" /\ call.podIPs # <<>>
        THEN scan \o SubSeq(all, Len(md) + 1, Len(all))
        ELSE scan

\* the position at which a returned match was discovered
DiscoveredAt(d, m) ==
  CHOOSE k \in 1..Len(d) : SameResource(d[k].Resource, m.Resource)

\* C11: the sort is stable: two matches of equal confidence are returned
\* in the order they were discovered (catalogue order, then listing order).
C11_StableSort ==
  Resolving =>
    \A d \in {Discovered} :
      \A i, j \in Positions :
        (i < j /\ ConfEq(matches[i].ConfidenceScore,
                         matches[j].ConfidenceScore))
          => DiscoveredAt(d, matches[i]) < DiscoveredAt(d, matches[j])

\* the catalogue positions at which an object is listed at its version
PositionsOf(item) ==
  {c \in 1..Len(GetCrossplaneResourceTypes) :
     GetCrossplaneResourceTypes[c]
       = GVR(item.group, item.version, Docs[item.id].collection)}

\* the items returned by the listings of the call that succeeded
ListedItems ==
  {item \in StoredItems : PositionsOf(item) \ call.failing # {}}

\* C12: a listing failure of any set of resource types is not fatal to
\* resolveByName: it returns no error and exactly the matches of the
\* resource types whose listing succeeded.
C12_ListingFailureNotFatal ==
  op = "FindWithConfidence" =>
    /\ err = "nil"
    /\ \A item \in ListedItems :
         \A e \in {EvaluatedFor(item)} :
           e.confidence.n > 3 * e.confidence.d
             => \E i \in Positions :
                  SameResource(matches[i].Resource, item)
    /\ \A i \in Positions :
         /\ matches[i].Resource \in ListedItems
         /\ \A e \in {EvaluatedFor(matches[i].Resource)} :
              /\ matches[i].ConfidenceScore = e.confidence
              /\ matches[i].MatchReasons = e.reasons

\* a listing failed that would have contributed a match, after a type
\* listed before it had contributed one that is returned
C12_Witness ==
  /\ op = "FindWithConfidence"
  /\ \E i \in Positions, f \in call.failing :
       \A c \in PositionsOf(matches[i].Resource) : c < f
  /\ \E item \in StoredItems :
       /\ PositionsOf(item) \subseteq call.failing
       /\ Len(FiredFor(item)) > 0

\* the identifiers of the successfully listed items that expose address ip
ExposedAt(ip) ==
  {ResourceIdentifier(item) :
     item \in {x \in ListedItems :
                 ip \in Range(extractIPAddresses(x, call.ord))}}

\* C13: rebuild never fails as a whole: whichever listings fail, it returns
\* no error, publishes an index that holds exactly the address entries of
\* the types whose listing succeeded, and sets the last-build time to the
\* time it completes.
C13_RebuildNeverFails ==
  op = "BuildNetworkMap" =>
    /\ err = "nil"
    /\ lastNetworkMapBuild = now
    /\ DOMAIN resourceIPMap
         = UNION {Range(extractIPAddresses(item, call.ord)) :
                    item \in ListedItems}
    /\ \A ip \in DOMAIN resourceIPMap :
         Range(resourceIPMap[ip]) = ExposedAt(ip)

\* a rebuild during which one listing failed and another succeeded: the
\* index holds entries, none for the object whose listing failed
C13_Witness ==
  /\ op = "BuildNetworkMap"
  /\ now > 0
  /\ DOMAIN resourceIPMap # {}
  /\ \E item \in StoredItems :
       /\ item \notin ListedItems
       /\ extractIPAddresses(item, call.ord) # <<>>

\* a rebuild during which every listing that could return an item failed
C13_WitnessAllFail ==
  /\ op = "BuildNetworkMap"
  /\ store # EmptyMap
  /\ ListedItems = {}
  /\ resourceIPMap = EmptyMap
  /\ lastNetworkMapBuild = now

\* the map the running rebuild publishes when it completes
CompleteMap ==
  BuildNetworkMap(store, building.failing, building.ord)

\* what a lookup of address ip reads from map m
Read(m, ip) ==
  [ip |-> ip, found |-> ip \in DOMAIN m,
   connected |-> IF ip \in DOMAIN m THEN m[ip] ELSE <<>>]

\* C14: at every point of a rebuild the index a lookup sees is the
\* complete map of before the rebuild or the complete map the rebuild
\* publishes, never a part of the new entries.
C14_OldOrNewIndex ==
  op = "Building" =>
    \A new \in {CompleteMap} :
      /\ resourceIPMap = building.old \/ resourceIPMap = new
      /\ seen # NoLookup
           => (seen = Read(building.old, seen.ip)
                 \/ seen = Read(new, seen.ip))
      /\ building.pos > Len(GetCrossplaneResourceTypes)
           => building.resourceMap = new

\* a lookup made while the loop had entered a part of the new entries in
\* its local map, the complete map differing from the old one
C14_Witness ==
  /\ op = "Building"
  /\ seen # NoLookup
  /\ building.pos <= Len(GetCrossplaneResourceTypes)
  /\ building.resourceMap # EmptyMap
  /\ building.resourceMap # CompleteMap
  /\ building.old # EmptyMap
  /\ building.old # CompleteMap

OtherWritersKeys ==
  {k \in DOMAIN applied.persisted :
     \/ k \notin DOMAIN Docs[applied.resource].labels
     \/ Docs[applied.resource].labels[k] # applied.persisted[k]}

\* C16: apply merges into the labels the store holds when apply runs, not
\* into the labels of the caller's copy: what it reads and what it writes
\* is built from the stored labels, and a stored label whose key is not
\* desired, another writer's included, is stored with the same value after
\* apply.
C16_MergesIntoStoredLabels ==
  (op = "ApplyLabelsToResource" /\ applied.exists) =>
    /\ applied.read => applied.current = applied.persisted
    /\ applied.updates = 1
         => applied.written = MergeLabels(applied.persisted, applied.labels)
    /\ \A k \in DOMAIN applied.persisted \ DOMAIN applied.labels :
         /\ k \in DOMAIN store[applied.resource]
         /\ store[applied.resource][k] = applied.persisted[k]

\* an apply that wrote to a resource carrying another writer's label whose
\* key is not desired
C16_Witness ==
  /\ op = "ApplyLabelsToResource"
  /\ applied.exists
  /\ applied.updates = 1
  /\ applied.err = "nil"
  /\ OtherWritersKeys \ DOMAIN applied.labels # {}

\* C17: when another write to the same resource commits between the read
\* and the write of an apply, the apply's write is rejected: apply returns
\* an error and the store keeps the other writer's state.
C17_ConflictRejected ==
  (finished.pc = "done" /\ finished.overlapped) =>
    /\ finished.err = "failed to update resource"
    /\ finished.kept

\* an apply whose write came after another writer had changed the labels it
\* had read
C17_Witness ==
  /\ finished.pc = "done"
  /\ finished.overlapped
  /\ ~finished.fresh

\* two passes overlapped on one resource: the write of one came after the
\* other pass had committed, with no external write
C17_WitnessTwoPasses ==
  /\ finished.pc = "done"
  /\ finished.overlapped
  /\ resourceVersions[finished.id] = 1
  /\ store[finished.id] # Docs[finished.id].labels
  /\ \E l \in DesiredLabels :
       store[finished.id] = MergeLabels(Docs[finished.id].labels, l)

\* the identifiers a pass tried to apply labels to, in order
AttemptedIds == [i \in 1..Len(pass.attempts) |-> pass.attempts[i].id]

\* the applies of the pass that returned an error
FailedAttempts ==
  {i \in 1..Len(pass.attempts) : pass.attempts[i].err # "nil"}

C18_WitnessUpdate ==
  /\ pass.controller = "labeller"
  /\ pass.result = "requeue"
  /\ \E i, j \in 1..Len(pass.attempts) :
       /\ i < j
       /\ pass.attempts[i].err = "failed to update resource"
       /\ pass.attempts[j].err = "nil"
       /\ pass.attempts[j].updates = 1

\* C19: in a pass of the workload reconciler, apply is attempted for every
\* matched resource of the workload, also after an apply that failed.
C19_WorkloadContinuesAfterFailure ==
  (pass.controller = "workload" /\ pass.resolved = 1) =>
    AttemptedIds = pass.matched

\* what holds instead: the pass ends at the first apply that fails and
\* returns its error
C19_StopsAtFirstFailure ==
  (pass.controller = "workload" /\ pass.resolved = 1) =>
    /\ \A i \in FailedAttempts : i = Len(pass.attempts)
    /\ FailedAttempts # {} => pass.result = "error"
    /\ AttemptedIds = SubSeq(pass.matched, 1, Len(pass.attempts))

\* C20: a CrossplaneLabeller pass whose namespace selector is malformed
\* ends with an error, whatever the cluster holds: it runs no resolution,
\* attempts no apply, leaves every managed resource as it was and sets the
\* Ready condition to False, in the stored status too once that is written.
C20_MalformedSelectorFailsPass ==
  (pass.controller = "labeller" /\ CompileFails(pass.selector)) =>
    /\ pass.result = "error"
    /\ pass.err # "nil"
    /\ pass.resolved = 0
    /\ pass.attempts = <<>>
    /\ store = pass.before
    /\ pass.conditions["Ready"] = "False"
    /\ pass.written => conditions["Ready"] = "False"

\* a pass with a malformed selector over a store that an earlier pass has
\* labelled, its status written
C20_Witness ==
  /\ pass.controller = "labeller"
  /\ CompileFails(pass.selector)
  /\ pass.written
  /\ "LabelingErrors" \in DOMAIN pass.conditions
  /\ \E id \in DOMAIN store : store[id] # Docs[id].labels

\* the namespaces a pass selects when the API server lists them
SelectedNamespaces ==
  fetchNamespaces(NamespaceList, pass.selector, FALSE).items

\* C21: a CrossplaneLabeller pass whose pod selector is malformed ends with
\* an error and writes no label, whatever namespaces the pass selects, none
\* at all included.
C21_MalformedPodSelectorFailsPass ==
  (pass.controller = "labeller" /\ CompileFails(pass.podSelector)) =>
    /\ pass.result = "error"
    /\ pass.err # "nil"
    /\ pass.attempts = <<>>
    /\ store = pass.before

\* what holds instead: the pass writes no label, and it ends with an error
\* when it selects a namespace or fails before it lists the pods; a pass
\* that selects no namespace never compiles the pattern and ends with a
\* requeue and Ready=True once its status is written
C21_FailsWhenNamespaceSelected ==
  (pass.controller = "labeller" /\ CompileFails(pass.podSelector)) =>
    /\ pass.attempts = <<>>
    /\ pass.resolved = 0
    /\ store = pass.before
    /\ (SelectedNamespaces # <<>> \/ CompileFails(pass.selector)) =>
         /\ pass.result = "error"
         /\ pass.err # "nil"
         /\ pass.conditions["Ready"] = "False"
    /\ (pass.calm /\ SelectedNamespaces = <<>>
          /\ ~CompileFails(pass.selector)) =>
         /\ pass.result = "requeue"
         /\ pass.err = "nil"
         /\ pass.conditions["Ready"] = "True"

\* the weights of lines 248-305, in tenths
WeightTable ==
  {WName, WNamespaceLabel, WEnvironmentLabel, WOtherLabel,
   WForProviderField}

\* the scores slice the scorer builds for the resource of a match
ScoresOf(m) ==
  LET fired == FiredFor(m.Resource)
  IN  [k \in 1..Len(fired) |-> fired[k].w]

MaxOf(s) == CHOOSE x \in Range(s) : \A y \in Range(s) : y <= x

\* C22: for the fired weights S of every match resolveByName returns and
\* every weight w of the table with w <= max(S), the confidence the scorer
\* computes for S with w added is not lower than the confidence it
\* computed for S.
C22_CorroborationNeverLowers ==
  op = "FindWithConfidence" =>
    \A i \in Positions :
      \A S \in {ScoresOf(matches[i])}, w \in WeightTable :
        w <= MaxOf(S) =>
          ~ConfLess(Score(Append(S, w)), matches[i].ConfidenceScore)

\* what holds instead: the confidence is a mean of the fired weights, so
\* one more fired weight lowers it exactly when that weight is below the
\* confidence computed without it
C22_LoweredByWeightBelowMean ==
  op = "FindWithConfidence" =>
    \A i \in Positions :
      \A S \in {ScoresOf(matches[i])}, w \in WeightTable :
        ConfLess(Score(Append(S, w)), matches[i].ConfidenceScore)
          <=> w * matches[i].ConfidenceScore.d
                < matches[i].ConfidenceScore.n

\* the labels every CrossplaneLabeller object of LabellerSpecs configures
ConfiguredLabels == CHOOSE l \in {spec.Labels : spec \in LabellerSpecs} : TRUE

\* the store holds the configured labels on object id
Labelled(id) ==
  \A k \in DOMAIN ConfiguredLabels :
    k \in DOMAIN store[id] /\ store[id][k] = ConfiguredLabels[k]

\* apply derives the collection the resource was listed from
RegularKind(resource) ==
  \E t \in 1..Len(GetCrossplaneResourceTypes) :
    GetCrossplaneResourceTypes[t]
      = GVROf(resource.kind, resource.group, resource.version)

\* the identifiers of the resources the metadata scan associates with a
\* namespace at the start of the pass, the ones apply can fetch
ScannedFor(namespace) ==
  LET md == FindCrossplaneResourcesForNamespaceWithConfidence(
              pass.before, namespace, {}, AllKeys)
  IN  {md[q].Resource.id : q \in {i \in 1..Len(md) :
                                    RegularKind(md[i].Resource)}}

\* the selected namespaces in which a pod of the pass runs
PodNamespaces ==
  {pass.cluster[i].namespace : i \in 1..Len(pass.cluster)}
    \cap Range(SelectedNamespaces)

\* a pass of the CrossplaneLabeller that completed while the API server
\* answered every request
CompletedCalm ==
  pass.controller = "labeller" /\ pass.result = "requeue" /\ pass.calm

\* C23: at the end of a CrossplaneLabeller pass, for every namespace the
\* namespace selector selects, a namespace without a pod included, every
\* resource the metadata scan associates with the namespace carries the
\* configured labels (stated for a pass in which every request is
\* answered and for the resources apply can fetch).
C23_EverySelectedNamespaceLabelled ==
  CompletedCalm =>
    \A ns \in Range(SelectedNamespaces) :
      \A id \in ScannedFor(ns) : Labelled(id)

\* what holds instead: the resources of the namespaces in which a pod runs
\* are labelled, and a resource the pass writes is one that the resolution
\* for some pod returned
C23_LabelledThroughPods ==
  CompletedCalm =>
    /\ \A ns \in PodNamespaces : \A id \in ScannedFor(ns) : Labelled(id)
    /\ pass.resolved = Len(pass.cluster) \/ PodNamespaces = {}
    /\ PodNamespaces = {} => pass.attempts = <<>> /\ store = pass.before

\* the applies of the pass that returned no error
SucceededAttempts ==
  {i \in 1..Len(pass.attempts) : pass.attempts[i].err = "nil"}

\* C24: after a CrossplaneLabeller pass that completes, the
\* ResourcesLabeled of its status is the number of distinct managed
\* resources an apply of the pass succeeded on, however many pods run.
C24_CountsDistinctResources ==
  (pass.controller = "labeller" /\ pass.result = "requeue") =>
    pass.resourcesLabeled
      = Cardinality({pass.attempts[i].id : i \in SucceededAttempts})

\* what holds instead: the count is the number of applies that succeeded,
\* one per pod for a resource that several pods resolve to, and it counts
\* the applies that wrote nothing
C24_CountsSuccessfulApplies ==
  (pass.controller = "labeller" /\ pass.result = "requeue") =>
    /\ pass.resourcesLabeled = Cardinality(SucceededAttempts)
    /\ pass.resourcesLabeled
         >= Cardinality({pass.attempts[i].id : i \in SucceededAttempts})
    /\ Len(pass.cluster) <= 1 =>
         pass.resourcesLabeled
           = Cardinality({pass.attempts[i].id : i \in SucceededAttempts})

\* C25: after a rebuild every key of the index passes the dotted-quad
\* validation of looksLikeIP, whatever the kinds of the resources the
\* addresses were extracted from, compute and redis instances included.
C25_KeysAreDottedQuads ==
  op = "BuildNetworkMap" =>
    \A ip \in DOMAIN resourceIPMap : looksLikeIP(ip)

\* what holds instead: a key that is no dotted quad comes from a compute
\* instance or from the host of a redis instance, whose fields are
\* entered as they are; every key from another kind is validated
C25_ValidatedExceptInstances ==
  op = "BuildNetworkMap" =>
    \A ip \in DOMAIN resourceIPMap :
      \A k \in 1..Len(resourceIPMap[ip]) :
        LET c == resourceIPMap[ip][k]
        IN  \/ looksLikeIP(ip)
            \/ /\ c.Kind = KindInstance
               /\ c.Group \in {"compute.gcp.upbound.io",
                               "redis.gcp.upbound.io"}

\* C26: after a rebuild no identifier occurs twice in the list the index
\* holds under one address, also for a resource that yields the address
\* from several fields or several times from one connection string.
C26_NoIdentifierTwice ==
  op = "BuildNetworkMap" =>
    \A ip \in DOMAIN resourceIPMap :
      \A i, j \in 1..Len(resourceIPMap[ip]) :
        i # j => resourceIPMap[ip][i] # resourceIPMap[ip][j]

\* what holds instead: an identifier occurs under an address as many times
\* as the extraction returned the address for its resource
C26_OncePerExtractedAddress ==
  op = "BuildNetworkMap" =>
    \A ip \in DOMAIN resourceIPMap :
      \A item \in ListedItems :
        \A ips \in {extractIPAddresses(item, call.ord)} :
          Cardinality({k \in 1..Len(resourceIPMap[ip]) :
                         resourceIPMap[ip][k] = ResourceIdentifier(item)})
            = Cardinality({k \in 1..Len(ips) : ips[k] = ip})

MinOf(s) == CHOOSE x \in Range(s) : \A y \in Range(s) : x <= y

\* the scores slice the scorer builds for an item and the call's namespace
FiredScores(item) ==
  LET fired == FiredFor(item)
  IN  [k \in 1..Len(fired) |-> fired[k].w]

\* the items of the call's listings, in the order the scan visits them
Scanned == ListAll(store, call.failing)

\* the key of the k-th scanned item was marked by an earlier match
SeenBefore(items, k) ==
  \E j \in 1..(k - 1) :
    /\ SameResource(items[j], items[k])
    /\ FiredFor(items[j]) # <<>>

\* C27: when at least one signal fires for a listed resource, its
\* confidence lies between the smallest and the largest fired weight, so
\* within [0.5, 0.9] and above the 0.30 threshold; and a listed resource
\* whose key no earlier match has marked is returned by resolveByName if
\* and only if at least one signal fired for it.
C27_ConfidenceWithinFiredWeights ==
  op = "FindWithConfidence" =>
    \A items \in {Scanned} :
      \A k \in 1..Len(items) :
        \A S \in {FiredScores(items[k])}, e \in {EvaluatedFor(items[k])} :
          /\ S # <<>> =>
               /\ MinOf(S) * e.confidence.d <= e.confidence.n
               /\ e.confidence.n <= MaxOf(S) * e.confidence.d
               /\ WForProviderField * e.confidence.d <= e.confidence.n
               /\ e.confidence.n <= WNamespaceLabel * e.confidence.d
               /\ ConfAbove(e.confidence, Threshold)
          /\ ~SeenBefore(items, k) =>
               ((\E i \in Positions : matches[i].Resource = items[k])
                  <=> S # <<>>)

\* a call that returned a resource with three fired weights whose
\* confidence is strictly between the smallest and the largest of them,
\* and that listed a resource for which nothing fired
C27_Witness ==
  /\ op = "FindWithConfidence"
  /\ \E i \in Positions :
       \E S \in {FiredScores(matches[i].Resource)} :
         /\ Len(S) >= 3
         /\ MinOf(S) * matches[i].ConfidenceScore.d
              < matches[i].ConfidenceScore.n
         /\ matches[i].ConfidenceScore.n
              < MaxOf(S) * matches[i].ConfidenceScore.d
  /\ \E k \in 1..Len(Scanned) : FiredFor(Scanned[k]) = <<>>

\* the collection apply and the network phase derive for an item
DerivedGVR(item) == GVROf(item.kind, item.group, item.version)

\* C28: for every listed resource, the collection derived from its kind,
\* group and version is the catalogue entry it was listed from; so every
\* match a resolution returns is found by the Get that apply makes.
C28_DerivedCollectionIsCatalogueEntry ==
  Resolving =>
    /\ \A item \in ListedItems :
         \A c \in PositionsOf(item) \ call.failing :
           DerivedGVR(item) = GetCrossplaneResourceTypes[c]
    /\ \A i \in Positions :
         matches[i].Resource.id
           \in GetIds(store, DerivedGVR(matches[i].Resource),
                      matches[i].Resource.name)

\* what holds instead: the derived collection is the catalogue entry
\* exactly for the kinds whose collection is the lower-cased kind plus "s",
\* and the Get of apply finds exactly the matches of those kinds
C28_RegularKindsOnly ==
  Resolving =>
    /\ \A item \in ListedItems :
         \A c \in PositionsOf(item) \ call.failing :
           DerivedGVR(item) = GetCrossplaneResourceTypes[c]
             <=> Docs[item.id].collection = ToLower(item.kind) \o << "s" >>
    /\ \A i \in Positions :
         LET r == matches[i].Resource
         IN  IF Docs[r.id].collection = ToLower(r.kind) \o << "s" >>
               THEN r.id \in GetIds(store, DerivedGVR(r), r.name)
             ELSE GetIds(store, DerivedGVR(r), r.name) = {}

\* the first catalogue position at which the call listed an item
FirstListedAt(item) ==
  CHOOSE c \in PositionsOf(item) \ call.failing :
    \A d \in PositionsOf(item) \ call.failing : c <= d

\* the objects of two listed items, distinct, of one kind and name, both
\* scoring above the threshold, x listed before y
ShadowedPairs ==
  {p \in ListedItems \X ListedItems :
     /\ p[1].id # p[2].id
     /\ SameResource(p[1], p[2])
     /\ ConfAbove(EvaluatedFor(p[1]).confidence, Threshold)
     /\ ConfAbove(EvaluatedFor(p[2]).confidence, Threshold)
     /\ FirstListedAt(p[1]) < FirstListedAt(p[2])}

\* C29: when two distinct resources listed under different types have the
\* same kind and name and both score above 0.30, the list resolveByName
\* returns holds the one listed first in catalogue order and not the
\* other, which the kind/name check skips.
C29_SecondOfSameKeySkipped ==
  op = "FindWithConfidence" =>
    \A p \in ShadowedPairs :
      /\ \E i \in Positions : matches[i].Resource.id = p[1].id
      /\ \A i \in Positions : matches[i].Resource.id # p[2].id

\* a call that listed the compute Instance "web" and the redis Instance
\* "web", both matching, and returned the compute one alone
C29_Witness ==
  /\ op = "FindWithConfidence"
  /\ ShadowedPairs # {}
  /\ \E p \in ShadowedPairs :
       /\ p[1].group # p[2].group
       /\ Len(matches) = 1
       /\ matches[1].Resource.group = p[1].group

\* a call in which the listing of the first type failed: the resource of
\* the second type is returned
C29_WitnessFirstNotListed ==
  /\ op = "FindWithConfidence"
  /\ {2, 3} \subseteq DOMAIN store
  /\ ShadowedPairs = {}
  /\ \E i \in Positions : matches[i].Resource.id = 3

\* the applies of the pass that sent an Update
Writes == {i \in 1..Len(pass.attempts) : pass.attempts[i].updates > 0}

====
